---- MODULE Spec2Model ----
(***************************************************************************)
(* Device lifecycle and reliable delivery of the telemetry agent           *)
(* (src/client): StateManager, Sender, Cache, identity and the             *)
(* orchestration loop of main().                                           *)
(*                                                                         *)
(* Modelling conventions                                                   *)
(*  - A UUID is a positive integer; uuid4() yields the next unused one     *)
(*    (a fresh value); 0 stands for "client_id.txt absent".                *)
(*  - A credential is an integer; generate_token pairs the UUID with the   *)
(*    index of the shared secret, so two tokens agree iff UUID and secret  *)
(*    agree; 0 stands for an absent/empty token.                           *)
(*  - A JSON object (RUNTIME_CONFIG, a response body) is a function whose  *)
(*    DOMAIN is its set of keys.                                           *)
(*  - Time is in seconds; it advances only while the agent sleeps; a sleep  *)
(*    lasts the requested time, or longer when the host is suspended.      *)
(*  - The remote service is the environment: every HTTP call may be        *)
(*    answered by any response of the finite sets below.                   *)
(***************************************************************************)
EXTENDS Integers, Sequences, FiniteSets, TLC

\* ------------------------------------------------------------------ bounds
MaxTime == 60      \* seconds the agent runs (host awake) in one behaviour
HostSuspend == 270 \* seconds the host may stay suspended during one sleep
MaxUuid == 3       \* UUIDs generated in one behaviour
MaxCache == 2      \* records ever saved to the queue
StartTime == 100000  \* int(time.time()) when main() starts
MaxRows == 3

\* ------------------------------------------------------- program constants
SEND_BATCH_SIZE == 20
ERROR_STATE_RETRY_INTERVAL == 5
REGISTER_FAILED_RETRY_INTERVAL == 30
REGISTER_REJECTED_RETRY_INTERVAL == 1800
SERVER_INACTIVE_RETRY_INTERVAL == 60
CONFIG_INCOMPLETE_RETRY_INTERVAL == 30
CACHE_CLEANUP_INTERVAL == 86400
MAX_ERROR_DURATION == 300
MAX_ERROR_RETRIES == 10
REGISTER_RETRY_INTERVAL == 30
\* index of the agent's SERVER_SECRET_KEY among the secrets of the model
SERVER_SECRET_KEY == 0

\* ClientState
UNREGISTERED == "unregistered"
REGISTERING == "registering"
REGISTERED == "registered"
DELETED == "deleted"
REINITIALIZED == "reinitialized"
SLEEP_RETRY == "sleep_retry"
ERROR == "error"
ClientState == {UNREGISTERED, REGISTERING, REGISTERED, DELETED, REINITIALIZED,
                SLEEP_RETRY, ERROR}

VARIABLES
    \* StateManager
    state,              \* self.state
    error_start_time,   \* self.error_start_time
    error_retry_count,  \* self.error_retry_count
    state_file,         \* client_state.json: the state it names, "absent" if none
    delete_marker,      \* .client_delete_marker exists
    reinit_count,       \* reinit_info.json: reinit_count (0 when the file is absent)
    changes,            \* the "old -> new" state changes logged by the latest step
    \* identity
    client_id_file,     \* client_id.txt: the UUID it holds, 0 if absent
    uuid_count,         \* UUIDs generated so far
    \* config module
    RUNTIME_CONFIG, API_ENDPOINT, AUTH_TOKEN,
    monitor_config,     \* the MonitorConfig object: its mode
    \* Cache
    cache,              \* rows of table metrics, in id order
    next_id,            \* the AUTOINCREMENT counter
    \* main() and the calls it is suspended in
    pc, sleep_dur, after_sleep,
    my_client_id, my_token, in_sleep_retry, retry_count,   \* register_client / sleep-retry locals
    metrics,            \* the sample collected and not yet queued (0: none)
    last_activity_time,
    req,                \* the HTTP request posted last
    resp,               \* the HTTP response the latest step handled
    ret,                \* value returned by the latest should_stop_* / send_immediate
    steps,              \* the operations of the collection loop the latest step ran, in order
    now,                \* int(time.time())
    suspended,          \* seconds the host has been suspended so far
    faults              \* local storage may fail in this behaviour

vars == <<state, error_start_time, error_retry_count, state_file, delete_marker,
          reinit_count, changes, client_id_file, uuid_count, RUNTIME_CONFIG,
          API_ENDPOINT, AUTH_TOKEN, monitor_config, cache, next_id, pc, sleep_dur,
          after_sleep, my_client_id, my_token, in_sleep_retry, retry_count, metrics,
          last_activity_time, req, resp, ret, steps, now, suspended, faults>>

\* ------------------------------------------------------------ JSON objects
Put(d, k, v) == [x \in DOMAIN d \cup {k} |-> IF x = k THEN v ELSE d[x]]
Pop(d, k) == [x \in DOMAIN d \ {k} |-> d[x]]
Get(d, k, default) == IF k \in DOMAIN d THEN d[k] ELSE default
\* dict.update: every key of src overwrites, the other keys of dst stay
Update(dst, src) == [x \in DOMAIN dst \cup DOMAIN src |->
                        IF x \in DOMAIN src THEN src[x] ELSE dst[x]]

\* ---------------------------------------------------------------- config.py
EmptyDict == [x \in {} |-> 0]
DefaultUrl == "http://localhost:8045/api/agent/report"
DEFAULT_MONITOR_ITEMS ==
    [cpu |-> [enabled |-> TRUE, collect_temp |-> TRUE, collect_power |-> TRUE],
     memory |-> [enabled |-> TRUE],
     disk |-> [enabled |-> TRUE, paths |-> <<>>],
     gpu |-> [enabled |-> TRUE, collect_temp |-> TRUE, collect_power |-> TRUE]]
DEFAULT_CONFIG ==
    [status |-> "accepted", server_id |-> 0, is_active |-> TRUE,
     report_interval |-> 30, monitor_items |-> DEFAULT_MONITOR_ITEMS,
     monitor_config |-> [mode |-> "CONTINUOUS", schedule |-> EmptyDict,
                         countdown |-> EmptyDict],
     report_url |-> DefaultUrl]

get_report_interval(rc) == Get(rc, "report_interval", DEFAULT_CONFIG["report_interval"])
is_server_active(rc) == Get(rc, "is_active", DEFAULT_CONFIG["is_active"])
is_monitoring_enabled(rc) ==
    LET items == Get(rc, "monitor_items", DEFAULT_CONFIG["monitor_items"])
    IN \E i \in DOMAIN items : Get(items[i], "enabled", FALSE)

\* -------------------------------------------------------------- identity.py
generate_token(uuid_str, secret) == uuid_str * 2 + secret + 1


NoRequest == [kind |-> "none", url |-> "", token |-> 0, client_ids |-> <<>>, ids |-> <<>>]
NoResponse == [code |-> 0, kind |-> "none", body |-> EmptyDict]

\* The variables as one record ("world"), so that the sequential code of a
\* handler is a chain of functions world -> world; changes, resp and ret
\* describe the latest step only, so they start empty in every step.
World ==
    [state |-> state, error_start_time |-> error_start_time,
     error_retry_count |-> error_retry_count, state_file |-> state_file,
     delete_marker |-> delete_marker, reinit_count |-> reinit_count,
     changes |-> <<>>, client_id_file |-> client_id_file, uuid_count |-> uuid_count,
     RUNTIME_CONFIG |-> RUNTIME_CONFIG, API_ENDPOINT |-> API_ENDPOINT,
     AUTH_TOKEN |-> AUTH_TOKEN, monitor_config |-> monitor_config,
     cache |-> cache, next_id |-> next_id, pc |-> pc, sleep_dur |-> sleep_dur,
     after_sleep |-> after_sleep, my_client_id |-> my_client_id,
     my_token |-> my_token, in_sleep_retry |-> in_sleep_retry,
     retry_count |-> retry_count, metrics |-> metrics,
     last_activity_time |-> last_activity_time, req |-> req, resp |-> NoResponse,
     ret |-> FALSE, steps |-> <<>>, now |-> now, suspended |-> suspended,
     faults |-> faults]

Commit(w) ==
    /\ state' = w.state
    /\ error_start_time' = w.error_start_time
    /\ error_retry_count' = w.error_retry_count
    /\ state_file' = w.state_file
    /\ delete_marker' = w.delete_marker
    /\ reinit_count' = w.reinit_count
    /\ changes' = w.changes
    /\ client_id_file' = w.client_id_file
    /\ uuid_count' = w.uuid_count
    /\ RUNTIME_CONFIG' = w.RUNTIME_CONFIG
    /\ API_ENDPOINT' = w.API_ENDPOINT
    /\ AUTH_TOKEN' = w.AUTH_TOKEN
    /\ monitor_config' = w.monitor_config
    /\ cache' = w.cache
    /\ next_id' = w.next_id
    /\ pc' = w.pc
    /\ sleep_dur' = w.sleep_dur
    /\ after_sleep' = w.after_sleep
    /\ my_client_id' = w.my_client_id
    /\ my_token' = w.my_token
    /\ in_sleep_retry' = w.in_sleep_retry
    /\ retry_count' = w.retry_count
    /\ metrics' = w.metrics
    /\ last_activity_time' = w.last_activity_time
    /\ req' = w.req
    /\ resp' = w.resp
    /\ ret' = w.ret
    /\ steps' = w.steps
    /\ now' = w.now
    /\ suspended' = w.suspended
    /\ faults' = w.faults

\* Outcome of the local file operations of one step: io.state_write (writing
\* client_state.json), io.id_file ("ok", "unlink_fails": removing the old
\* client_id.txt raises, "write_fails": writing the new one raises),
\* io.reinit_write (writing reinit_info.json).
IoOk == [state_write |-> TRUE, id_file |-> "ok", reinit_write |-> TRUE]
IoOutcomes(f) ==
    IF f THEN [state_write : BOOLEAN, id_file : {"ok", "unlink_fails", "write_fails"},
               reinit_write : BOOLEAN]
         ELSE {IoOk}
\* the outcomes for an operation that only writes client_state.json
SaveOutcomes(f) == {io \in IoOutcomes(f) : io.id_file = "ok" /\ io.reinit_write}

\* get_client_id seeded with the fault of generating an identifier on every call
get_client_id_Fresh(w) ==
    [w EXCEPT !.client_id_file = w.uuid_count + 1, !.uuid_count = @ + 1]
\* identity.get_client_id: the persisted id, generated and persisted when absent
get_client_id(w) ==
    IF w.client_id_file # 0 THEN w
    ELSE [w EXCEPT !.client_id_file = w.uuid_count + 1, !.uuid_count = @ + 1]
\* identity.get_auth_token, for a world whose identifier exists
get_auth_token(w) == generate_token(w.client_id_file, SERVER_SECRET_KEY)

\* ------------------------------------------------------------ StateManager
\* _save_state seeded with the fault of never writing the file
save_state_Skipped(w, io) == w
\* StateManager._save_state: the write may fail; the failure is logged, not raised
save_state(w, io) == IF io.state_write THEN [w EXCEPT !.state_file = w.state] ELSE w

set_state(w, new_state, t, io) ==
    IF w.state = new_state THEN w
    ELSE LET old_state == w.state
             w1 == [w EXCEPT !.state = new_state]
             w2 == IF new_state = ERROR
                   THEN IF old_state # ERROR
                        THEN [w1 EXCEPT !.error_start_time = t, !.error_retry_count = 0]
                        ELSE [w1 EXCEPT !.error_retry_count = @ + 1]
                   ELSE IF old_state = ERROR
                        THEN [w1 EXCEPT !.error_start_time = 0, !.error_retry_count = 0]
                        ELSE w1
             w3 == save_state(w2, io)
         IN [w3 EXCEPT !.changes = Append(@, <<old_state, new_state>>)]

regenerate_client_id(w) ==
    [w EXCEPT !.client_id_file = w.uuid_count + 1, !.uuid_count = @ + 1]

\* clear_auth_info seeded with the fault of keeping report_url
clear_auth_info_KeepsUrl(w) ==
    [w EXCEPT !.RUNTIME_CONFIG = Pop(Pop(@, "auth_token"), "server_id")]

clear_auth_info(w) ==
    [w EXCEPT !.RUNTIME_CONFIG = Pop(Pop(Pop(@, "auth_token"), "server_id"), "report_url")]

reset_device_config(w) == w

save_reinit_timestamp(w, io) ==
    IF io.reinit_write THEN [w EXCEPT !.reinit_count = @ + 1] ELSE w

reinitialize_device(w, t, io) ==
    IF io.id_file = "unlink_fails" /\ w.client_id_file # 0
    THEN set_state(w, ERROR, t, io)
    ELSE IF io.id_file = "write_fails"
    THEN set_state([w EXCEPT !.client_id_file = 0], ERROR, t, io)
    ELSE LET w1 == regenerate_client_id(w)
             w2 == clear_auth_info(w1)
             w3 == reset_device_config(w2)
             w4 == set_state(w3, REINITIALIZED, t, io)
         IN save_reinit_timestamp(w4, io)

\* handle_device_deleted_response seeded with the fault of not reinitialising
handle_device_deleted_response_NoReinit(w, t, io) == set_state(w, DELETED, t, io)

handle_device_deleted_response(w, t, io) ==
    reinitialize_device(set_state(w, DELETED, t, io), t, io)

on_device_deleted(w, t, io) == handle_device_deleted_response(w, t, io)

attempt_error_recovery(w, t, io) ==
    IF w.delete_marker
    THEN reinitialize_device(w, t, io)
    ELSE set_state(w, UNREGISTERED, t, io)

\* should_auto_recover_from_error, should_stop_registration and
\* should_stop_reporting return a value and change the world: [ret, w]

\* should_auto_recover_from_error seeded with the fault of recovering only
\* after more than MAX_ERROR_DURATION seconds
should_auto_recover_from_error_Late(w, t, io) ==
    IF w.state # ERROR THEN [ret |-> FALSE, w |-> w]
    ELSE IF t - w.error_start_time > MAX_ERROR_DURATION
    THEN [ret |-> TRUE, w |-> attempt_error_recovery(w, t, io)]
    ELSE IF w.error_retry_count >= MAX_ERROR_RETRIES
    THEN [ret |-> TRUE, w |-> attempt_error_recovery(w, t, io)]
    ELSE [ret |-> FALSE, w |-> w]

should_auto_recover_from_error(w, t, io) ==
    IF w.state # ERROR THEN [ret |-> FALSE, w |-> w]
    ELSE IF t - w.error_start_time >= MAX_ERROR_DURATION
    THEN [ret |-> TRUE, w |-> attempt_error_recovery(w, t, io)]
    ELSE IF w.error_retry_count >= MAX_ERROR_RETRIES
    THEN [ret |-> TRUE, w |-> attempt_error_recovery(w, t, io)]
    ELSE [ret |-> FALSE, w |-> w]

\* should_stop_registration seeded with the fault of never leaving ERROR
should_stop_registration_NoRecovery(w, t, io) == [ret |-> w.state = ERROR, w |-> w]
\* StateManager.should_stop_registration
should_stop_registration(w, t, io) ==
    IF w.state = ERROR
    THEN LET r == should_auto_recover_from_error(w, t, io)
         IN [ret |-> ~r.ret, w |-> r.w]
    ELSE [ret |-> FALSE, w |-> w]

should_stop_reporting(w, t, io) ==
    IF w.state = ERROR
    THEN LET r == should_auto_recover_from_error(w, t, io)
         IN [ret |-> ~r.ret, w |-> r.w]
    ELSE [ret |-> FALSE, w |-> w]

should_enter_sleep_retry_mode(w) == w.state \in {REINITIALIZED, SLEEP_RETRY}

enter_sleep_retry_mode(w, t, io) == set_state(w, SLEEP_RETRY, t, io)

\* get_sleep_retry_interval seeded with the fault of growing by a minute per
\* retry without a ceiling
get_sleep_retry_interval_Linear(n) == 60 * n
\* timing_config.get_sleep_retry_interval: SLEEP_RETRY_INTERVALS.get(n, default)
get_sleep_retry_interval(n) ==
    IF n = 0 THEN 0 ELSE IF n = 1 THEN 60 ELSE IF n = 2 THEN 120 ELSE 300

\* config.py, lines 118-119: the start-up policy flags
AUTO_RESET_ERROR_STATE_ON_STARTUP == TRUE
AUTO_RESET_REGISTERING_STATE_ON_STARTUP == TRUE

\* StateManager._load_state, seeded with the fault of keeping REGISTERING
load_state_KeepsRegistering(file) ==
    IF file \in {"absent", "corrupt", ERROR} THEN UNREGISTERED ELSE file
\* StateManager._load_state, from the content of client_state.json
load_state(file) ==
    IF file \in {"absent", "corrupt"} THEN UNREGISTERED
    ELSE IF file \in {ERROR, REGISTERING} THEN UNREGISTERED
    ELSE file

\* StateManager.__init__ (lines 32-38) with _load_state: the state loaded from
\* client_state.json, the error counters at 0, and the reset state saved at
\* once when a persisted ERROR or REGISTERING was reset
StateManager_init(w, io) ==
    LET file == w.state_file
        should_reset == \/ file = ERROR /\ AUTO_RESET_ERROR_STATE_ON_STARTUP
                        \/ file = REGISTERING /\ AUTO_RESET_REGISTERING_STATE_ON_STARTUP
        w1 == [w EXCEPT !.state = load_state(file), !.error_start_time = 0,
                        !.error_retry_count = 0]
    IN IF should_reset THEN save_state(w1, io) ELSE w1


\* ------------------------------------------------------------------ Cache
\* a row of table metrics: id, timestamp, sent, and of its data the client_id
\* it was collected under
\* Cache.save(data): of data the row keeps the client_id and whether it has
\* the key "heartbeat"
save(w, data) ==
    [w EXCEPT !.cache = Append(@, [id |-> w.next_id, timestamp |-> w.now,
                                   client_id |-> data.client_id,
                                   heartbeat |-> data.heartbeat, sent |-> FALSE]),
              !.next_id = @ + 1]

\* the dict collect_all returned for sample m: a metrics sample, no heartbeat key
metrics_data(m) == [client_id |-> m, heartbeat |-> FALSE]

RECURSIVE Take(_, _)
Take(seq, n) == IF n = 0 \/ seq = <<>> THEN <<>>
                ELSE <<Head(seq)>> \o Take(Tail(seq), n - 1)

IsUnsent(row) == ~row.sent
\* get_unsent seeded with the fault of ignoring the sent flag
get_unsent_AnyFlag(rows, limit) == Take(rows, limit)
\* get_unsent seeded with the fault of ORDER BY id DESC
get_unsent_NewestFirst(rows, limit) ==
    LET u == SelectSeq(rows, IsUnsent)
    IN SubSeq(u, IF Len(u) > limit THEN Len(u) - limit + 1 ELSE 1, Len(u))
\* Cache.get_unsent: WHERE sent = 0 ORDER BY id LIMIT ?, over rows kept in id order
get_unsent(rows, limit) == Take(SelectSeq(rows, IsUnsent), limit)

Range(seq) == {seq[i] : i \in DOMAIN seq}

\* mark_sent seeded with the fault of marking the first id only
mark_sent_FirstOnly(w, ids) ==
    [w EXCEPT !.cache = [i \in DOMAIN @ |->
                            IF ids # <<>> /\ @[i].id = Head(ids) THEN [@[i] EXCEPT !.sent = TRUE]
                            ELSE @[i]]]

\* mark_sent seeded with the fault of an UPDATE without its WHERE clause
mark_sent_EveryRow(w, ids) ==
    [w EXCEPT !.cache = [i \in DOMAIN @ |->
                            IF ids # <<>> THEN [@[i] EXCEPT !.sent = TRUE] ELSE @[i]]]

\* Cache.mark_sent: UPDATE metrics SET sent = 1 WHERE id = ?, for every id
mark_sent(w, ids) ==
    [w EXCEPT !.cache = [i \in DOMAIN @ |->
                            IF @[i].id \in Range(ids) THEN [@[i] EXCEPT !.sent = TRUE]
                            ELSE @[i]]]

\* prune seeded with the fault of sparing the records not yet sent
prune_SentOnly(w, max_age_seconds) ==
    LET threshold == w.now - max_age_seconds
        Keep(row) == ~(row.timestamp < threshold /\ row.sent)
    IN [w EXCEPT !.cache = SelectSeq(@, Keep)]

\* Cache.prune: DELETE FROM metrics WHERE timestamp < now - max_age_seconds
prune(w, max_age_seconds) ==
    LET threshold == w.now - max_age_seconds
        Keep(row) == ~(row.timestamp < threshold)
    IN [w EXCEPT !.cache = SelectSeq(@, Keep)]

\* ------------------------------------------------------- the remote service
Exc == [code |-> 0, kind |-> "exc", body |-> EmptyDict]      \* the call raises
Text(c) == [code |-> c, kind |-> "text", body |-> EmptyDict]  \* body is no JSON
Json(c, b) == [code |-> c, kind |-> "json", body |-> b]

ServerUrl == "http://server/api/agent/report"
PushedItems ==
    [cpu |-> [enabled |-> TRUE, collect_temp |-> FALSE], memory |-> [enabled |-> FALSE],
     disk |-> [enabled |-> TRUE], gpu |-> [enabled |-> FALSE]]
AllDisabled ==
    [cpu |-> [enabled |-> FALSE], memory |-> [enabled |-> FALSE],
     disk |-> [enabled |-> FALSE], gpu |-> [enabled |-> FALSE]]
\* an item whose value is no JSON object: iterating it raises
NotADict == [notdict |-> TRUE]
IsDict(v) == "notdict" \notin DOMAIN v

Accepted(tok, active) ==
    [status |-> "accepted", server_id |-> 7, auth_token |-> tok,
     report_url |-> ServerUrl, report_interval |-> 60,
     monitor_items |-> PushedItems, is_active |-> active]

\* what POST /register may answer to a request of client cid
RegisterResponses(cid) ==
    LET good == generate_token(cid, SERVER_SECRET_KEY)
        \* the token of a service configured with another secret
        bad == generate_token(cid, SERVER_SECRET_KEY + 1)
    IN {Exc, Text(200), Text(403), Text(500),
        Json(200, [status |-> "pending"]),
        Json(200, [status |-> "rejected", message |-> "no"]),
        Json(200, [status |-> "deleted"]),
        Json(200, [status |-> "banned"]),
        Json(403, [error_code |-> "DEVICE_DELETED"]),
        Json(403, [error_code |-> "FORBIDDEN"]),
        Json(200, Accepted(good, TRUE)),
        Json(200, Accepted(good, FALSE)),
        Json(200, Accepted(bad, TRUE)),
        Json(200, Pop(Accepted(good, TRUE), "auth_token")),
        Json(200, Pop(Accepted(good, TRUE), "server_id")),
        Json(200, Pop(Accepted(good, TRUE), "is_active")),
        Json(200, [Accepted(good, TRUE) EXCEPT !.monitor_items = [cpu |-> [enabled |-> TRUE]]]),
        Json(200, [Accepted(good, TRUE) EXCEPT !.monitor_items = AllDisabled])}

\* what POST /report may answer
ReportResponses ==
    {Exc, Text(200), Text(403), Text(500),
     Json(200, [status |-> "deleted"]),
     Json(200, [status |-> "rejected", report_interval |-> 90,
                monitor_config |-> [mode |-> "SCHEDULED"]]),
     Json(403, [error_code |-> "DEVICE_DELETED"]),
     Json(403, [error_code |-> "FORBIDDEN"]),
     Json(200, [status |-> "accepted"]),
     Json(201, [status |-> "accepted", is_active |-> TRUE,
                monitor_items |-> [gpu |-> [collect_temp |-> FALSE]],
                monitor_config |-> [countdown |-> [end_time |-> "2030-01-01T00:00:10Z"]]]),
     Json(200, [status |-> "accepted", is_active |-> FALSE, report_interval |-> 90]),
     Json(200, [status |-> "accepted", server_id |-> 7, report_interval |-> 60,
                report_url |-> ServerUrl, monitor_items |-> PushedItems]),
     Json(200, [status |-> "accepted", monitor_config |-> [mode |-> "SCHEDULED",
                schedule |-> [days |-> <<"1">>]]]),
     Json(200, [status |-> "accepted", server_id |-> 9,
                monitor_items |-> [cpu |-> NotADict]])}

ReportsDeletion(r) ==
    \/ r.kind = "json" /\ r.code \in 200..299 /\ Get(r.body, "status", "") = "deleted"
    \/ r.kind = "json" /\ r.code = 403 /\ Get(r.body, "error_code", "") = "DEVICE_DELETED"

\* ----------------------------------------------------------------- Sender
\* MonitorConfig.update_config
update_config_mode(data) ==
    [mode |-> Get(data, "mode", "CONTINUOUS"), schedule |-> Get(data, "schedule", EmptyDict),
     countdown |-> Get(data, "countdown", EmptyDict)]

\* the merge of pushed monitor_items seeded with the fault of replacing the
\* items wholesale
MergeItems_Replaces(old, pushed) == pushed
\* the per-item, per-key merge of pushed monitor_items, with the default disk path
MergeItems(old, pushed) ==
    [i \in DOMAIN old \cup DOMAIN pushed |->
        IF i \notin DOMAIN pushed THEN old[i]
        ELSE LET base == IF i \in DOMAIN old THEN old[i] ELSE EmptyDict
                 merged == Update(base, pushed[i])
             IN IF i = "disk" /\ "paths" \notin DOMAIN pushed[i] /\ "paths" \notin DOMAIN merged
                THEN Put(merged, "paths", <<"/">>)
                ELSE merged]

\* the config section of Sender.send / send_immediate: [ok, w], ok = FALSE when
\* it raises, after the fields before the failing one were applied
ApplyPushedConfig(w, body) ==
    LET rc0 == w.RUNTIME_CONFIG
        rc1 == IF "server_id" \in DOMAIN body THEN Put(rc0, "server_id", body["server_id"]) ELSE rc0
        rc2 == IF "report_interval" \in DOMAIN body
               THEN Put(rc1, "report_interval", body["report_interval"]) ELSE rc1
        rc3 == IF "report_url" \in DOMAIN body THEN Put(rc2, "report_url", body["report_url"]) ELSE rc2
        raises == /\ "monitor_items" \in DOMAIN body
                  /\ \E i \in DOMAIN body["monitor_items"] : ~IsDict(body["monitor_items"][i])
        rc4 == IF "monitor_items" \in DOMAIN body /\ ~raises
               THEN Put(rc3, "monitor_items", MergeItems(rc3["monitor_items"], body["monitor_items"]))
               ELSE rc3
        pushes_mode == "monitor_config" \in DOMAIN body /\ ~raises
        rc5 == IF pushes_mode THEN Put(rc4, "monitor_config", body["monitor_config"]) ELSE rc4
    IN [ok |-> ~raises,
        w |-> [w EXCEPT !.RUNTIME_CONFIG = rc5,
                        !.monitor_config = IF pushes_mode
                                           THEN update_config_mode(body["monitor_config"])
                                           ELSE @]]

\* the 403 branch of both send paths, seeded with the fault of not looking at
\* the error code
is_device_deleted_error_Ignored(r) == FALSE
\* Sender.send_immediate lines 185-187, Sender.send lines 379-381: the body of
\* a 403 response parses and its error_code is DEVICE_DELETED
is_device_deleted_error(r) ==
    r.kind = "json" /\ Get(r.body, "error_code", "") = "DEVICE_DELETED"

\* Sender.send, line 273, seeded with the fault of taking every status as accepted
report_rejected_Never(body) == FALSE
\* Sender.send, line 273: the body's status is not "accepted"
report_rejected(body) == Get(body, "status", "") # "accepted"

\* Sender.send from the response on (lines 260-405), for the posted ids
send_response(w, r, ids, io) ==
    IF r.kind = "exc" THEN w
    ELSE IF r.code \in 200..299
    THEN IF r.kind = "text" THEN w
         ELSE IF Get(r.body, "status", "") = "deleted" THEN on_device_deleted(w, w.now, io)
         ELSE IF report_rejected(r.body) THEN w
         ELSE IF ~Get(r.body, "is_active", TRUE) THEN w
         ELSE LET a == ApplyPushedConfig(w, r.body)
              IN IF a.ok THEN mark_sent(a.w, ids) ELSE a.w
    ELSE IF r.code = 403
    THEN IF is_device_deleted_error(r)
         THEN on_device_deleted(w, w.now, io)
         ELSE w
    ELSE w

\* Sender.send_immediate, line 76, seeded with the fault of taking every
\* status as accepted
immediate_rejected_Never(body) == FALSE
\* Sender.send_immediate, line 76: the body's status is not "accepted"
immediate_rejected(body) == Get(body, "status", "") # "accepted"

\* Sender.send_immediate from the response on (lines 63-215): [ret, w]
send_immediate_response(w, r, io) ==
    IF r.kind = "exc" THEN [ret |-> FALSE, w |-> w]
    ELSE IF r.code \in 200..299
    THEN IF r.kind = "text" THEN [ret |-> TRUE, w |-> w]
         ELSE IF Get(r.body, "status", "") = "deleted"
         THEN [ret |-> FALSE, w |-> on_device_deleted(w, w.now, io)]
         ELSE IF immediate_rejected(r.body) THEN [ret |-> FALSE, w |-> w]
         ELSE IF ~Get(r.body, "is_active", TRUE) THEN [ret |-> FALSE, w |-> w]
         ELSE LET a == ApplyPushedConfig(w, r.body)
              IN [ret |-> a.ok, w |-> a.w]
    ELSE IF r.code = 403
    THEN IF is_device_deleted_error(r)
         THEN [ret |-> FALSE, w |-> on_device_deleted(w, w.now, io)]
         ELSE [ret |-> FALSE, w |-> w]
    ELSE [ret |-> FALSE, w |-> w]


\* ------------------------------------------------------------------ main.py
Sleep(w, d, after) == [w EXCEPT !.pc = "sleeping", !.sleep_dur = d, !.after_sleep = after]

\* the report URL the Sender posts to (its API_ENDPOINT is the import-time default)
report_url(w) == Get(w.RUNTIME_CONFIG, "report_url", DefaultUrl)

\* requests.post(REGISTER_URL, json=payload) with the payload built on entry
RegisterPost(w) ==
    [w EXCEPT !.pc = "reg_wait",
              !.req = [kind |-> "register", url |-> "register", token |-> 0,
                       client_ids |-> <<w.my_client_id>>, ids |-> <<>>]]

\* register_client, lines 42-57: identifier and token are read once, on entry
RegisterCall(w) ==
    LET w1 == get_client_id(w)
    IN RegisterPost([w1 EXCEPT !.my_client_id = w1.client_id_file,
                               !.my_token = get_auth_token(w1)])

\* register_client, line 89: the token check, here seeded with the fault of
\* accepting any token
token_mismatch_Unchecked(w, body) == FALSE
\* register_client, line 89: the returned token differs from the local one
token_mismatch(w, body) == body["auth_token"] # w.my_token

\* register_client, line 164, seeded with the fault of giving up at once
on_request_exception_GivesUp(w) == [out |-> "none", w |-> w]
\* register_client, lines 164-165: a RequestException is logged and the loop
\* goes on to its retry wait
on_request_exception(w) == [out |-> "retry", w |-> w]

\* register_client from the response on: what it returns (out) and the world;
\* "retry" stands for reaching the retry wait, "crash" for an exception that
\* neither register_client nor main() catches
register_client_response(w, r, io) ==
    IF r.kind = "exc" THEN on_request_exception(w)
    ELSE IF r.code = 200
    THEN IF r.kind = "text" THEN [out |-> "none", w |-> w]
         ELSE LET status == Get(r.body, "status", "")
              IN IF status = "pending" THEN [out |-> "retry", w |-> w]
                 ELSE IF status = "rejected" THEN [out |-> "rejected", w |-> w]
                 ELSE IF status = "deleted"
                 THEN [out |-> "deleted", w |-> handle_device_deleted_response(w, w.now, io)]
                 ELSE IF status = "accepted"
                 THEN IF Get(r.body, "auth_token", 0) = 0 THEN [out |-> "none", w |-> w]
                      ELSE IF token_mismatch(w, r.body) THEN [out |-> "none", w |-> w]
                      ELSE IF ~({"server_id", "auth_token", "report_url", "report_interval",
                                 "monitor_items", "is_active"} \subseteq DOMAIN r.body)
                      THEN [out |-> "none", w |-> w]
                      ELSE IF ~({"cpu", "memory", "disk", "gpu"}
                                   \subseteq DOMAIN r.body["monitor_items"])
                      THEN [out |-> "none", w |-> w]
                      ELSE [out |-> "accepted", w |-> w]
                 ELSE [out |-> "none", w |-> w]
    ELSE IF r.code = 403
    THEN IF r.kind = "text" THEN [out |-> "crash", w |-> w]
         ELSE IF Get(r.body, "error_code", "") = "DEVICE_DELETED"
         THEN [out |-> "deleted", w |-> handle_device_deleted_response(w, w.now, io)]
         ELSE [out |-> "none", w |-> w]
    ELSE [out |-> "none", w |-> w]

\* update_config, lines 235-236, seeded with the fault of keeping the old interval
set_report_interval_Kept(rc, config) == rc
\* update_config, lines 235-236: the report interval of the response is stored
set_report_interval(rc, config) ==
    IF "report_interval" \in DOMAIN config
    THEN Put(rc, "report_interval", config["report_interval"]) ELSE rc

\* update_config(config, monitor_config) for the full_config of an accepted response
update_config(w, config) ==
    LET w0 == get_client_id(w)
        rc0 == w0.RUNTIME_CONFIG
        url == Get(config, "report_url", "")
        rc1 == IF url # "" THEN Put(rc0, "report_url", url)
               ELSE IF "report_url" \notin DOMAIN rc0 THEN Put(rc0, "report_url", w0.API_ENDPOINT)
               ELSE rc0
        rc2 == IF "monitor_items" \in DOMAIN config
               THEN Put(rc1, "monitor_items", MergeItems(rc1["monitor_items"], config["monitor_items"]))
               ELSE rc1
        rc3 == set_report_interval(rc2, config)
        rc4 == IF "monitor_config" \in DOMAIN config
               THEN Put(rc3, "monitor_config", config["monitor_config"]) ELSE rc3
    IN [w0 EXCEPT !.RUNTIME_CONFIG = rc4,
                  !.API_ENDPOINT = IF url # "" THEN url ELSE @,
                  !.AUTH_TOKEN = get_auth_token(w0),
                  !.monitor_config = IF "monitor_config" \in DOMAIN config
                                     THEN update_config_mode(config["monitor_config"]) ELSE @]

\* the keys register_client copies into full_config
full_config(body) ==
    [k \in {"status", "server_id", "report_url", "report_interval", "monitor_items",
            "is_active", "auth_token"} |-> body[k]]

\* collect_all: 0 (None) when no metric family is enabled, else a sample, which
\* is represented by the client_id it carries
collect_all(w) ==
    LET items == w.RUNTIME_CONFIG["monitor_items"]
        on(i) == Get(Get(items, i, DEFAULT_MONITOR_ITEMS[i]), "enabled",
                     DEFAULT_MONITOR_ITEMS[i]["enabled"])
    IN IF \E i \in {"cpu", "memory", "disk", "gpu"} : on(i)
       THEN get_client_id(w).client_id_file ELSE 0

\* send_immediate up to the post (lines 38-61): identifier and token are read now
ImmediatePost(w, kind, waitpc) ==
    LET w1 == get_client_id(w)
    IN [w1 EXCEPT !.pc = waitpc,
                  !.req = [kind |-> kind, url |-> report_url(w1), token |-> get_auth_token(w1),
                           client_ids |-> <<w1.client_id_file>>, ids |-> <<>>]]

\* main(), lines 396-425: the first sample after an accepted registration
FirstSample(w) ==
    LET m == collect_all(w)
        w1 == get_client_id(w)
    IN IF m = 0 THEN [w EXCEPT !.pc = "tick"]
       ELSE ImmediatePost([w1 EXCEPT !.metrics = m], "sample", "first_wait")

\* main(), line 350 on: the normal registration of a pass
NormalRegistration(w) ==
    IF w.state # REGISTERED THEN RegisterCall([w EXCEPT !.in_sleep_retry = FALSE])
    ELSE [w EXCEPT !.pc = "loop_top", !.in_sleep_retry = FALSE]

\* main(), lines 319-326: the head of the sleep-retry loop
SleepRetryLoop(w) ==
    IF w.state = SLEEP_RETRY
    THEN IF get_sleep_retry_interval(w.retry_count) > 0
         THEN Sleep(w, get_sleep_retry_interval(w.retry_count), "sr_call")
         ELSE RegisterCall(w)
    ELSE NormalRegistration(w)

\* StateManager.handle_register_response, for the dict register_client returned
handle_register_response(w, out, io) ==
    IF out = "accepted"
    THEN [action |-> "resume_normal", w |-> set_state(w, REGISTERED, w.now, io)]
    ELSE IF out = "deleted"
    THEN [action |-> "reinitialize", w |-> reinitialize_device(w, w.now, io)]
    ELSE [action |-> "continue_sleep", w |-> w]

\* main(), lines 353-356, seeded with the fault of retrying silently
registration_failed_SilentRetry(w, io) ==
    Sleep(w, REGISTER_FAILED_RETRY_INTERVAL, "loop_top")
\* main(), lines 353-356: register_client returned None
registration_failed(w, io) ==
    Sleep(set_state(w, ERROR, w.now, io), REGISTER_FAILED_RETRY_INTERVAL, "loop_top")

\* main() after register_client returned out ("none": None) for response body
AfterRegister(w, out, body, io) ==
    IF w.in_sleep_retry
    THEN IF out = "none" THEN SleepRetryLoop([w EXCEPT !.retry_count = @ + 1])
         ELSE LET h == handle_register_response(w, out, io)
              IN IF h.action = "continue_sleep"
                 THEN SleepRetryLoop([h.w EXCEPT !.retry_count = @ + 1])
                 ELSE NormalRegistration(h.w)
    ELSE IF out = "none" THEN registration_failed(w, io)
    ELSE IF out = "rejected" THEN Sleep(w, REGISTER_REJECTED_RETRY_INTERVAL, "loop_top")
    ELSE IF out = "deleted" THEN [w EXCEPT !.pc = "loop_top"]
    ELSE LET w1 == set_state(w, REGISTERED, w.now, io)
             w2 == update_config(w1, full_config(body))
         IN IF ~body["is_active"]
            THEN Sleep(set_state(w2, ERROR, w2.now, io), SERVER_INACTIVE_RETRY_INTERVAL, "loop_top")
            ELSE IF w2.API_ENDPOINT = "" \/ w2.AUTH_TOKEN = 0
            THEN Sleep(set_state(w2, ERROR, w2.now, io), CONFIG_INCOMPLETE_RETRY_INTERVAL, "loop_top")
            ELSE FirstSample(w2)

\* MonitorConfig.is_monitoring_time; in_window: the wall clock lies in the
\* configured schedule or before the countdown's end
is_monitoring_time(mc, in_window) ==
    IF mc.mode = "CONTINUOUS" THEN TRUE
    ELSE IF mc.mode = "SCHEDULED" THEN (DOMAIN mc.schedule = {} \/ in_window)
    ELSE IF mc.mode = "COUNTDOWN" THEN (DOMAIN mc.countdown # {} /\ in_window)
    ELSE TRUE

\* The wall clock: weekday as datetime.weekday() gives it (0 = Monday), the
\* minute of the local day, the instant in UTC and the zone's offset, the last
\* two counted from 2030-01-01T00:00:00 UTC.
Weekdays == 0..6
ClockMinutes == {0, 539, 540, 570, 600, 1080, 1081, 1439}
ClockInstants == {9, 10, 11}
ZoneOffsets == {0, 2}
\* every weekday and minute at one instant, and every instant and zone at one
\* weekday and minute
Clocks ==
    {c \in [weekday : Weekdays, minute : ClockMinutes, utc : ClockInstants, tz : ZoneOffsets] :
        \/ c.utc = 9 /\ c.tz = 0
        \/ c.weekday = 0 /\ c.minute = 0}

\* str(now.weekday() + 1)
WeekdayCode(c) == <<"1", "2", "3", "4", "5", "6", "7">>[c.weekday + 1]

\* now.strftime('%H:%M'): the four digits, zero padded
strftime_HM(c) ==
    <<(c.minute \div 60) \div 10, (c.minute \div 60) % 10,
      (c.minute % 60) \div 10, (c.minute % 60) % 10>>

\* Python's <= on two strings of digits: lexicographic
RECURSIVE StrLeq(_, _)
StrLeq(a, b) ==
    IF a = <<>> THEN TRUE
    ELSE IF b = <<>> THEN FALSE
    ELSE IF Head(a) # Head(b) THEN Head(a) < Head(b)
    ELSE StrLeq(Tail(a), Tail(b))

InList(x, l) == \E i \in 1..Len(l) : l[i] = x

\* _check_scheduled_time seeded with the fault of reading weekday() unshifted
check_scheduled_time_Unshifted(schedule, c) ==
    IF DOMAIN schedule = {} THEN TRUE
    ELSE LET days == Get(schedule, "days", <<>>)
             start_time == Get(schedule, "start_time", <<>>)
             end_time == Get(schedule, "end_time", <<>>)
         IN IF days # <<>> /\ ~InList(<<"0", "1", "2", "3", "4", "5", "6">>[c.weekday + 1], days)
            THEN FALSE
            ELSE IF start_time # <<>> /\ end_time # <<>>
            THEN StrLeq(start_time, strftime_HM(c)) /\ StrLeq(strftime_HM(c), end_time)
            ELSE TRUE

\* MonitorConfig._check_scheduled_time
check_scheduled_time(schedule, c) ==
    IF DOMAIN schedule = {} THEN TRUE
    ELSE LET days == Get(schedule, "days", <<>>)
             start_time == Get(schedule, "start_time", <<>>)
             end_time == Get(schedule, "end_time", <<>>)
         IN IF days # <<>> /\ ~InList(WeekdayCode(c), days)
            THEN FALSE
            ELSE IF start_time # <<>> /\ end_time # <<>>
            THEN StrLeq(start_time, strftime_HM(c)) /\ StrLeq(strftime_HM(c), end_time)
            ELSE TRUE

\* the end times a countdown may carry
END_UTC == "2030-01-01T00:00:10Z"
END_LOCAL == "2030-01-01T00:00:10"
END_OFFSET == "2030-01-01T02:00:10+02:00"
END_GARBAGE == "soon"
END_GARBAGE_Z == "soonZ"
EndTimes == {"", END_UTC, END_LOCAL, END_OFFSET, END_GARBAGE, END_GARBAGE_Z}

\* end_time_str.endswith('Z')
endswith_Z(s) == s \in {END_UTC, END_GARBAGE_Z}
\* end_time_str.replace('Z', '+00:00')
replace_Z(s) ==
    IF s = END_UTC THEN "2030-01-01T00:00:10+00:00"
    ELSE IF s = END_GARBAGE_Z THEN "soon+00:00"
    ELSE s
\* datetime.fromisoformat: ok is false where it raises ValueError; aware tells
\* whether the result carries an offset; t is the instant for an aware result
\* and the local reading for a naive one
fromisoformat(s) ==
    IF s = "2030-01-01T00:00:10+00:00" THEN [ok |-> TRUE, aware |-> TRUE, t |-> 10]
    ELSE IF s = END_OFFSET THEN [ok |-> TRUE, aware |-> TRUE, t |-> 10]
    ELSE IF s = END_LOCAL THEN [ok |-> TRUE, aware |-> FALSE, t |-> 10]
    ELSE [ok |-> FALSE, aware |-> FALSE, t |-> 0]

\* _check_countdown_time seeded with the fault of counting the end instant in
check_countdown_time_Inclusive(countdown, c) ==
    IF DOMAIN countdown = {} THEN FALSE
    ELSE LET end_time_str == Get(countdown, "end_time", "")
         IN IF end_time_str = "" THEN FALSE
            ELSE IF endswith_Z(end_time_str)
            THEN LET end_time == fromisoformat(replace_Z(end_time_str))
                 IN end_time.ok /\ c.utc <= end_time.t
            ELSE LET end_time == fromisoformat(end_time_str)
                 IN end_time.ok /\ ~end_time.aware /\ c.utc + c.tz <= end_time.t

\* MonitorConfig._check_countdown_time; comparing the naive datetime.now()
\* with an aware end time raises TypeError, which the method answers with False
check_countdown_time(countdown, c) ==
    IF DOMAIN countdown = {} THEN FALSE
    ELSE LET end_time_str == Get(countdown, "end_time", "")
         IN IF end_time_str = "" THEN FALSE
            ELSE IF endswith_Z(end_time_str)
            THEN LET end_time == fromisoformat(replace_Z(end_time_str))
                 IN end_time.ok /\ c.utc < end_time.t
            ELSE LET end_time == fromisoformat(end_time_str)
                 IN end_time.ok /\ ~end_time.aware /\ c.utc + c.tz < end_time.t

\* whether clock c lies in the window the descriptor mc configures
InWindow(mc, c) ==
    IF mc.mode = "SCHEDULED" THEN check_scheduled_time(mc.schedule, c)
    ELSE IF mc.mode = "COUNTDOWN" THEN check_countdown_time(mc.countdown, c)
    ELSE TRUE

\* MonitorConfig.is_monitoring_time at clock c
is_monitoring_time_at(mc, c) == is_monitoring_time(mc, InWindow(mc, c))

\* the reasons should_send_heartbeat returns (heartbeat.py lines 37, 41, 45, 47)
REASON_SERVER_INACTIVE == "server has disabled monitoring"
REASON_ALL_DISABLED == "all monitor items are disabled"
REASON_OUTSIDE_WINDOW == "current time is outside the monitoring window"
REASON_NONE == ""

\* should_send_heartbeat seeded with the fault of not testing the active flag
should_send_heartbeat_IgnoresActive(w, in_window) ==
    \/ ~is_monitoring_enabled(w.RUNTIME_CONFIG)
    \/ ~is_monitoring_time(w.monitor_config, in_window)

\* HeartbeatManager.should_send_heartbeat: the first element of its result
should_send_heartbeat(w, in_window) ==
    \/ ~is_server_active(w.RUNTIME_CONFIG)
    \/ ~is_monitoring_enabled(w.RUNTIME_CONFIG)
    \/ ~is_monitoring_time(w.monitor_config, in_window)

\* HeartbeatManager.should_send_heartbeat: the second element of its result
heartbeat_reason(w, in_window) ==
    IF ~is_server_active(w.RUNTIME_CONFIG) THEN REASON_SERVER_INACTIVE
    ELSE IF ~is_monitoring_enabled(w.RUNTIME_CONFIG) THEN REASON_ALL_DISABLED
    ELSE IF ~is_monitoring_time(w.monitor_config, in_window) THEN REASON_OUTSIDE_WINDOW
    ELSE REASON_NONE

should_force_heartbeat(w) == w.now - w.last_activity_time >= 300

\* the step being taken has run operation s of the collection loop
Did(w, s) == [w EXCEPT !.steps = Append(@, s)]

\* the collection loop after sender.send() returned (lines 485-502)
AfterSend(w) ==
    LET w1 == [w EXCEPT !.last_activity_time = w.now]
    IN IF w1.state \in {DELETED, REINITIALIZED, SLEEP_RETRY}
       THEN [w1 EXCEPT !.pc = "loop_top"]
       ELSE Sleep(Did(prune(w1, CACHE_CLEANUP_INTERVAL), "prune"),
                  get_report_interval(w1.RUNTIME_CONFIG), "tick")

\* Sender.send, line 238, seeded with the fault of posting a record with the
\* client_id it was queued under
payload_client_id_Queued(w, row) == row.client_id
\* Sender.send, line 238: the client_id a queued record is posted with
payload_client_id(w, row) == w.client_id_file

\* Sender.send up to the post (lines 222-259)
SendPost(w0) ==
    LET w == Did(w0, "send_batch")
        batch == get_unsent(w.cache, SEND_BATCH_SIZE)
        w1 == get_client_id(w)
    IN IF batch = <<>> THEN AfterSend(w)
       ELSE [w1 EXCEPT !.pc = "batch_wait",
                       !.req = [kind |-> "batch", url |-> report_url(w1),
                                token |-> get_auth_token(w1),
                                client_ids |-> [i \in DOMAIN batch |->
                                                  payload_client_id(w1, batch[i])],
                                ids |-> [i \in DOMAIN batch |-> batch[i].id]]]

\* HeartbeatManager.create_heartbeat_data: the heartbeat carries the identifier
\* persisted now and the key "heartbeat"
create_heartbeat_data(w) ==
    [client_id |-> get_client_id(w).client_id_file, heartbeat |-> TRUE]

\* send_heartbeat, lines 94-97, seeded with the fault of queueing a heartbeat
\* that could not be sent
send_heartbeat_result_QueuesFailed(w, success) ==
    IF success THEN w ELSE save(w, create_heartbeat_data(w))
\* HeartbeatManager.send_heartbeat after send_immediate returned success
\* (lines 90-97): nothing is stored in the queue either way
send_heartbeat_result(w, success) == w

\* lines 479-482 seeded with the fault of sending before the sample is queued
send_and_save(w, m) == Did(save(SendPost(w), metrics_data(m)), "queue_save")
\* the collection loop, lines 479-482: cache.save(metrics), then sender.send()
save_and_send(w, m) == SendPost(Did(save(w, metrics_data(m)), "queue_save"))

\* the collection loop from the heartbeat decision on (lines 451-482)
TickDecide(w0, in_window) ==
    LET w == Did(w0, "heartbeat_decision")
    IN IF should_send_heartbeat(w, in_window)
       THEN ImmediatePost(Did(w, "heartbeat"), "heartbeat", "hb_wait")
       ELSE LET m == collect_all(w)
                w1 == Did(get_client_id(w), "collection")
            IN IF m = 0 THEN Sleep(w1, get_report_interval(w.RUNTIME_CONFIG), "tick")
               ELSE save_and_send(w1, m)


\* ------------------------------------------------------------------ actions
Bounded(w) ==
    /\ w.now - w.suspended <= StartTime + MaxTime
    /\ w.suspended <= HostSuspend
    /\ w.uuid_count <= MaxUuid
    /\ w.next_id <= MaxCache + 1
    /\ w.retry_count <= MaxUuid

Step(w) == Bounded(w) /\ Commit(w)

\* one pass of main()'s outer loop, lines 296-351, up to its first suspension
RunLoopTop(w, io) ==
    LET r == should_stop_registration(w, w.now, io)
        w1 == [r.w EXCEPT !.ret = r.ret]
        w2 == set_state(w1, REGISTERING, w.now, io)
    IN IF r.ret THEN Sleep(w1, ERROR_STATE_RETRY_INTERVAL, "loop_top")
       ELSE IF should_enter_sleep_retry_mode(w2)
       THEN SleepRetryLoop([enter_sleep_retry_mode(w2, w.now, io)
                              EXCEPT !.retry_count = 0, !.in_sleep_retry = TRUE])
       ELSE NormalRegistration(w2)

LoopTop ==
    /\ pc = "loop_top"
    /\ \E io \in IoOutcomes(faults) : Step(RunLoopTop(World, io))

\* time.sleep returns, after sleep_dur seconds or later when the host was
\* suspended meanwhile: the code after the sleep runs up to its next suspension
RunWake(w0, late) ==
    LET w == [w0 EXCEPT !.now = @ + w0.sleep_dur + late, !.suspended = @ + late,
                        !.pc = w0.after_sleep, !.sleep_dur = 0, !.after_sleep = "none"]
    IN IF w0.after_sleep = "reg_retry" THEN RegisterPost(w)
       ELSE IF w0.after_sleep = "sr_call" THEN RegisterCall(w)
       ELSE w

Wake ==
    /\ pc = "sleeping"
    /\ \E late \in {0, HostSuspend} : Step(RunWake(World, late))

\* the server's answer to POST /register reaches register_client
RunRegisterResponse(w, r, io) ==
    LET a == register_client_response([w EXCEPT !.resp = r], r, io)
    IN IF a.out = "retry" THEN Sleep(a.w, REGISTER_RETRY_INTERVAL, "reg_retry")
       ELSE IF a.out = "crash" THEN [a.w EXCEPT !.pc = "crashed"]
       ELSE AfterRegister(a.w, a.out, r.body, io)

RegisterResponse ==
    /\ pc = "reg_wait"
    /\ \E r \in RegisterResponses(my_client_id), io \in IoOutcomes(faults) :
         Step(RunRegisterResponse(World, r, io))

\* KeyboardInterrupt while main() sleeps: register_client's retry wait returns
\* None to its caller, every other sleep ends main()
Interrupt ==
    /\ pc = "sleeping"
    /\ \E io \in IoOutcomes(faults) :
         Step(IF after_sleep = "reg_retry"
              THEN AfterRegister([World EXCEPT !.sleep_dur = 0, !.after_sleep = "none"],
                                 "none", EmptyDict, io)
              ELSE [World EXCEPT !.pc = "exited", !.sleep_dur = 0, !.after_sleep = "none"])

\* the branch on the first sample's result seeded with the fault of dropping a
\* sample that was not sent
first_sample_result_Dropped(w, success) ==
    IF success THEN [w EXCEPT !.last_activity_time = w.now] ELSE w
\* main(), lines 407-415: the branch on what send_immediate(metrics) returned
first_sample_result(w, success) ==
    IF success THEN [w EXCEPT !.last_activity_time = w.now]
    ELSE save(w, metrics_data(w.metrics))

\* the answer to the first sample's send_immediate (main, lines 407-415)
RunFirstSampleResponse(w, r, io) ==
    LET a == send_immediate_response([w EXCEPT !.resp = r], r, io)
        w1 == [a.w EXCEPT !.ret = a.ret]
    IN [first_sample_result(w1, a.ret) EXCEPT !.metrics = 0, !.pc = "tick"]

FirstSampleResponse ==
    /\ pc = "first_wait"
    /\ \E r \in ReportResponses, io \in IoOutcomes(faults) :
         Step(RunFirstSampleResponse(World, r, io))

\* the body of the collection loop, lines 431-482, up to its first suspension
RunTick(w, io, in_window) ==
    LET r == should_stop_reporting(w, w.now, io)
        w1 == Did([r.w EXCEPT !.ret = r.ret], "state_checks")
    IN IF r.ret THEN [w1 EXCEPT !.pc = "loop_top"]
       ELSE IF w1.state \in {DELETED, REINITIALIZED, SLEEP_RETRY}
       THEN [w1 EXCEPT !.pc = "loop_top"]
       ELSE IF should_force_heartbeat(w1)
       THEN ImmediatePost(Did(w1, "forced_heartbeat"), "heartbeat", "fhb_wait")
       ELSE TickDecide(w1, in_window)

\* one tick of the collection loop
Tick ==
    /\ pc = "tick"
    /\ \E io \in IoOutcomes(faults), in_window \in BOOLEAN :
         Step(RunTick(World, io, in_window))

\* the answer to the forced heartbeat; the tick goes on (lines 447-482)
ForcedHeartbeatResponse ==
    /\ pc = "fhb_wait"
    /\ \E r \in ReportResponses, io \in IoOutcomes(faults), in_window \in BOOLEAN :
         LET a == send_immediate_response([World EXCEPT !.resp = r], r, io)
             w1 == [send_heartbeat_result(a.w, a.ret)
                      EXCEPT !.ret = a.ret,
                             !.last_activity_time = IF a.ret THEN now ELSE @]
         IN Step(TickDecide(w1, in_window))

\* the answer to a heartbeat sent instead of a report (lines 457-462)
HeartbeatResponse ==
    /\ pc = "hb_wait"
    /\ \E r \in ReportResponses, io \in IoOutcomes(faults) :
         LET a == send_immediate_response([World EXCEPT !.resp = r], r, io)
             w1 == [send_heartbeat_result(a.w, a.ret)
                      EXCEPT !.ret = a.ret,
                             !.last_activity_time = IF a.ret THEN now ELSE @]
         IN Step(Sleep(w1, get_report_interval(w1.RUNTIME_CONFIG), "tick"))

\* the answer to the batch posted by sender.send() (lines 482-502)
BatchResponse ==
    /\ pc = "batch_wait"
    /\ \E r \in ReportResponses, io \in IoOutcomes(faults) :
         Step(AfterSend(send_response(Did([World EXCEPT !.resp = r], "batch_response"),
                                      r, req.ids, io)))

\* an operator's tool writes .client_delete_marker (create_delete_marker)
CreateDeleteMarker ==
    /\ ~delete_marker
    /\ state = ERROR
    /\ pc \notin {"exited", "crashed"}
    /\ Step([World EXCEPT !.delete_marker = TRUE])

\* main() up to its loop: StateManager() loads client_state.json, whose content
\* a previous run left; get_auth_token() makes sure client_id.txt exists
\* the state after start-up, with the module configuration rc and the
\* monitoring mode mc
InitFrom(f, p, rc, mc) ==
    /\ \E file \in ClientState \cup {"absent"} :
         /\ state = load_state(file)
         /\ state_file = IF file \in {ERROR, REGISTERING} THEN UNREGISTERED ELSE file
    /\ error_start_time = 0
    /\ error_retry_count = 0
    /\ delete_marker = FALSE
    /\ reinit_count = 0
    /\ changes = <<>>
    /\ client_id_file = 1
    /\ uuid_count = 1
    /\ RUNTIME_CONFIG = rc
    /\ API_ENDPOINT = DefaultUrl
    /\ AUTH_TOKEN = generate_token(1, SERVER_SECRET_KEY)
    /\ monitor_config = mc
    /\ cache = <<>>
    /\ next_id = 1
    /\ pc = p
    /\ sleep_dur = 0
    /\ after_sleep = "none"
    /\ my_client_id = 0
    /\ my_token = 0
    /\ in_sleep_retry = FALSE
    /\ retry_count = 0
    /\ metrics = 0
    /\ last_activity_time = StartTime
    /\ req = NoRequest
    /\ resp = NoResponse
    /\ ret = FALSE
    /\ steps = <<>>
    /\ now = StartTime
    /\ suspended = 0
    /\ faults = f

InitWith(f, p) ==
    InitFrom(f, p, DEFAULT_CONFIG, update_config_mode(DEFAULT_CONFIG["monitor_config"]))

Init == InitWith(FALSE, "loop_top")

Next ==
    \/ LoopTop
    \/ Wake
    \/ Interrupt
    \/ RegisterResponse
    \/ FirstSampleResponse
    \/ Tick
    \/ ForcedHeartbeatResponse
    \/ HeartbeatResponse
    \/ BatchResponse
    \/ CreateDeleteMarker

\* the agent: main() with working local storage
Spec == Init /\ [][Next]_vars

\* ------------------------------------------- StateManager under any caller
\* The public operations of a StateManager object called in any order, with
\* any time between two calls; pc names the operation called last and ret
\* the value it returned.
Called(w, op) == [w EXCEPT !.pc = op]

CallSetState ==
    \E new_state \in ClientState, io \in SaveOutcomes(faults) :
        Step(Called(set_state(World, new_state, now, io), "set_state"))

CallShouldStopRegistration ==
    \E io \in IoOutcomes(faults) :
        LET r == should_stop_registration(World, now, io)
        IN Step(Called([r.w EXCEPT !.ret = r.ret], "should_stop_registration"))

CallShouldStopReporting ==
    \E io \in IoOutcomes(faults) :
        LET r == should_stop_reporting(World, now, io)
        IN Step(Called([r.w EXCEPT !.ret = r.ret], "should_stop_reporting"))

CallHandleDeviceDeletedResponse ==
    \E io \in IoOutcomes(faults) :
        Step(Called(handle_device_deleted_response(World, now, io),
                    "handle_device_deleted_response"))

CallReinitializeDevice ==
    \E io \in IoOutcomes(faults) :
        Step(Called(reinitialize_device(World, now, io), "reinitialize_device"))

CallEnterSleepRetryMode ==
    \E io \in SaveOutcomes(faults) :
        Step(Called(enter_sleep_retry_mode(World, now, io), "enter_sleep_retry_mode"))

CallCreateDeleteMarker ==
    /\ ~delete_marker
    /\ Step(Called([World EXCEPT !.delete_marker = TRUE], "create_delete_marker"))

\* time passes between two calls: a retry interval, or more when the host is
\* suspended
Elapse ==
    /\ now - suspended < StartTime + MaxTime
    /\ \E late \in {0, HostSuspend} :
         Step(Called([World EXCEPT !.now = now + REGISTER_FAILED_RETRY_INTERVAL + late,
                                   !.suspended = @ + late], "elapse"))

\* client_state.json is removed or damaged from outside the agent
DamageStateFile ==
    \E file \in {"absent", "corrupt"} :
        /\ state_file # file
        /\ Step(Called([World EXCEPT !.state_file = file], "damage_state_file"))

\* the process is started again: module state is back at its import-time
\* values (config.py 55-59, main.py 264-265), the files are as they were left,
\* and a new StateManager is constructed
Restart ==
    /\ pc # "constructed"
    /\ LET w0 == [World EXCEPT !.RUNTIME_CONFIG = DEFAULT_CONFIG,
                               !.API_ENDPOINT = DefaultUrl,
                               !.monitor_config = update_config_mode(DEFAULT_CONFIG["monitor_config"])]
           w1 == get_client_id(w0)
           w2 == [w1 EXCEPT !.AUTH_TOKEN = get_auth_token(w1)]
       IN Step(Called(StateManager_init(w2, IoOk), "constructed"))

InitSM == InitWith(FALSE, "constructed")
InitSMFaults == \E f \in BOOLEAN : InitWith(f, "constructed")

NextSM ==
    \/ CallSetState
    \/ CallShouldStopRegistration
    \/ CallShouldStopReporting
    \/ CallHandleDeviceDeletedResponse
    \/ CallReinitializeDevice
    \/ CallEnterSleepRetryMode
    \/ CallCreateDeleteMarker
    \/ Elapse
    \/ DamageStateFile
    \/ Restart

\* the StateManager with working local storage
SpecSM == InitSM /\ [][NextSM]_vars
\* the operations of the StateManager that write files, called in any order
\* (at one instant) on a host whose local storage works or may fail
NextSMFaults ==
    \/ CallSetState
    \/ CallHandleDeviceDeletedResponse
    \/ CallReinitializeDevice
    \/ CallEnterSleepRetryMode

SpecSMFaults == InitSMFaults /\ [][NextSMFaults]_vars

\* ------------------------------------------------- the Cache under any caller
\* The operations of a Cache object called in any order with any arguments;
\* pc names the operation called last and ret holds its arguments and result.
CacheStep(w) ==
    /\ w.next_id <= MaxRows + 1
    /\ w.now <= StartTime + MaxTime
    /\ Commit(w)

IdLists ==
    {<<>>} \cup {<<a>> : a \in 1..(MaxRows + 1)}
           \cup {<<a, b>> : a \in 1..(MaxRows + 1), b \in 1..(MaxRows + 1)}

CacheSave ==
    CacheStep(Called(save(World, metrics_data(client_id_file)), "save"))

CacheGetUnsent ==
    \E limit \in 0..MaxRows :
        CacheStep(Called([World EXCEPT !.ret = [limit |-> limit,
                                                rows |-> get_unsent(cache, limit)]],
                         "get_unsent"))

CacheMarkSent ==
    \E ids \in IdLists :
        CacheStep(Called([mark_sent(World, ids) EXCEPT !.ret = [ids |-> ids]], "mark_sent"))

CachePrune ==
    \E max_age_seconds \in {0, REGISTER_RETRY_INTERVAL, CACHE_CLEANUP_INTERVAL} :
        CacheStep(Called([prune(World, max_age_seconds)
                            EXCEPT !.ret = [max_age_seconds |-> max_age_seconds]], "prune"))

CacheElapse ==
    CacheStep(Called([World EXCEPT !.now = now + REGISTER_RETRY_INTERVAL], "elapse"))

InitCache == InitWith(FALSE, "constructed")

NextCache ==
    \/ CacheSave
    \/ CacheGetUnsent
    \/ CacheMarkSent
    \/ CachePrune
    \/ CacheElapse

SpecCache == InitCache /\ [][NextCache]_vars

\* ------------------------------------- should_send_heartbeat on any inputs
\* The configuration a HeartbeatManager may find: the active flag true, false
\* or absent, monitor items of any shape, any monitoring mode.
ActiveFlags == {"absent", "true", "false"}
ItemConfigs ==
    {DEFAULT_MONITOR_ITEMS, PushedItems, AllDisabled,
     [cpu |-> EmptyDict, memory |-> [enabled |-> FALSE]],
     [cpu |-> NotADict, memory |-> [enabled |-> FALSE]]}
ModeConfigs ==
    {EmptyDict, [mode |-> "CONTINUOUS"],
     [mode |-> "SCHEDULED"], [mode |-> "SCHEDULED", schedule |-> [days |-> <<"1">>]],
     [mode |-> "COUNTDOWN"], [mode |-> "COUNTDOWN", countdown |-> [duration |-> 10]],
     [mode |-> "OTHER"]}

InitHB ==
    \E a \in ActiveFlags, items \in ItemConfigs, mode \in ModeConfigs :
        LET rc0 == Put(DEFAULT_CONFIG, "monitor_items", items)
            rc == IF a = "absent" THEN Pop(rc0, "is_active") ELSE Put(rc0, "is_active", a = "true")
        IN InitFrom(FALSE, "constructed", rc, update_config_mode(mode))

CallShouldSendHeartbeat ==
    \E in_window \in BOOLEAN :
        Step(Called([World EXCEPT !.ret = [send |-> should_send_heartbeat(World, in_window),
                                           reason |-> heartbeat_reason(World, in_window),
                                           in_window |-> in_window]],
                    "should_send_heartbeat"))

NextHB == CallShouldSendHeartbeat

SpecHB == InitHB /\ [][NextHB]_vars

\* ------------------------------------------- the identifier under any caller
\* StateManager.reset_client: state file, identifier file, cache database and
\* delete marker are removed; the state is set without set_state
reset_client(w) ==
    [w EXCEPT !.state_file = "absent", !.client_id_file = 0, !.cache = <<>>, !.next_id = 1,
              !.delete_marker = FALSE, !.state = UNREGISTERED]

CallGetClientId ==
    LET w == get_client_id(World)
    IN Step(Called([w EXCEPT !.ret = w.client_id_file], "get_client_id"))

CallResetClient == Step(Called(reset_client(World), "reset_client"))

\* client_id.txt is emptied or removed from outside the agent
EraseIdFile ==
    /\ client_id_file # 0
    /\ Step(Called([World EXCEPT !.client_id_file = 0], "erase_id_file"))

InitId == InitWith(FALSE, "constructed")

NextId ==
    \/ CallGetClientId
    \/ CallResetClient
    \/ EraseIdFile
    \/ CallSetState
    \/ CallShouldStopRegistration
    \/ CallHandleDeviceDeletedResponse
    \/ CallReinitializeDevice
    \/ CallCreateDeleteMarker
    \/ Elapse
    \/ Restart

\* get_client_id and the StateManager with working local storage
SpecId == InitId /\ [][NextId]_vars

\* ------------------------------ the sleep-retry registration under any caller
\* main(), lines 319-347: one registration of the sleep-retry loop, for a
\* StateManager in SLEEP_RETRY: register_client(state_manager=...) handles the
\* answer and what it returns is passed to handle_register_response
CallRegisterInSleepRetry ==
    /\ state = SLEEP_RETRY
    /\ \E r \in RegisterResponses(client_id_file), io \in IoOutcomes(faults) :
         LET a == register_client_response([World EXCEPT !.resp = r], r, io)
         IN /\ a.out \notin {"retry", "crash"}
            /\ Step(Called(IF a.out = "none" THEN a.w
                           ELSE handle_register_response(a.w, a.out, io).w,
                           "register_in_sleep_retry"))

InitSR == InitWith(FALSE, "constructed")

NextSR ==
    \/ CallSetState
    \/ CallEnterSleepRetryMode
    \/ CallHandleDeviceDeletedResponse
    \/ CallRegisterInSleepRetry
    \/ Elapse

\* register_client and the StateManager with working local storage
SpecSR == InitSR /\ [][NextSR]_vars

\* ------------------------------------ sleep_and_retry_register on any count
\* the largest retry count sleep_and_retry_register is called with
MaxRetryCount == 6

InitRetry == InitWith(FALSE, "constructed")

\* StateManager.sleep_and_retry_register(retry_count): sleeps the interval of
\* the count and returns True, or returns False when the sleep is interrupted
\* (here: as it begins)
CallSleepAndRetryRegister ==
    /\ now <= StartTime + MaxTime
    /\ \E n \in 0..MaxRetryCount, interrupted \in BOOLEAN :
         LET sleep_interval == get_sleep_retry_interval(n)
             slept == sleep_interval > 0 /\ ~interrupted
         IN Commit(Called([World EXCEPT !.now = IF slept THEN @ + sleep_interval ELSE @,
                                        !.ret = [retry_count |-> n,
                                                 sleep_interval |-> sleep_interval,
                                                 result |-> sleep_interval = 0 \/ ~interrupted]],
                          "sleep_and_retry_register"))

NextRetry == CallSleepAndRetryRegister

SpecRetry == InitRetry /\ [][NextRetry]_vars

\* ---------------------------------------- is_monitoring_time on any inputs
\* The descriptors a MonitorConfig may hold: any mode; schedules with and
\* without days and with both, one or no end of the time range; countdowns
\* with and without an end time.
DayLists == {<<>>, <<"1", "2", "3", "4", "5">>, <<"6", "7">>}
TimeRanges ==
    {EmptyDict,
     [start_time |-> <<0, 9, 0, 0>>, end_time |-> <<1, 8, 0, 0>>],
     [start_time |-> <<1, 8, 0, 0>>, end_time |-> <<0, 9, 0, 0>>],
     [start_time |-> <<0, 9, 3, 0>>, end_time |-> <<0, 9, 3, 0>>],
     [start_time |-> <<0, 9, 0, 0>>],
     [start_time |-> <<>>, end_time |-> <<1, 8, 0, 0>>]}
Schedules ==
    {EmptyDict} \cup TimeRanges
    \cup {Put(r, "days", d) : r \in TimeRanges, d \in DayLists}
Countdowns ==
    {EmptyDict, [duration |-> 10]}
    \cup {[duration |-> 10, end_time |-> e] : e \in EndTimes}
WindowModes == {"CONTINUOUS", "SCHEDULED", "COUNTDOWN", "OTHER"}
WindowConfigs ==
    {EmptyDict}
    \cup {[mode |-> m] : m \in WindowModes}
    \cup {[mode |-> m, schedule |-> sc] : m \in WindowModes, sc \in Schedules}
    \cup {[mode |-> m, countdown |-> cd] : m \in WindowModes, cd \in Countdowns}

InitWindow ==
    \E mode \in WindowConfigs :
        InitFrom(FALSE, "constructed", DEFAULT_CONFIG, update_config_mode(mode))

CallIsMonitoringTime ==
    \E c \in Clocks :
        Step(Called([World EXCEPT !.ret = [active |-> is_monitoring_time_at(World.monitor_config, c),
                                           clock |-> c]],
                    "is_monitoring_time"))

NextWindow == CallIsMonitoringTime

SpecWindow == InitWindow /\ [][NextWindow]_vars

\* ================================================================ properties
ReportWaits == {"first_wait", "hb_wait", "fhb_wait", "batch_wait"}
StatusOf(r) == IF r.kind = "json" THEN Get(r.body, "status", "") ELSE ""
Is2xx(r) == r.code \in 200..299

\* C1: when a report response (batch or immediate path) has body status
\* "deleted", the state passes through DELETED and then REINITIALIZED within
\* that send; afterwards the persisted identifier differs from the one held
\* before (so the credential derived from it differs from the one the request
\* carried), and RUNTIME_CONFIG holds no credential.
C1_DeletedReportReinitializes ==
    [][(pc \in ReportWaits /\ Is2xx(resp') /\ StatusOf(resp') = "deleted")
        => /\ changes' = <<<<state, DELETED>>, <<DELETED, REINITIALIZED>>>>
           /\ state' = REINITIALIZED
           /\ client_id_file' \notin {0, client_id_file}
           /\ generate_token(client_id_file', SERVER_SECRET_KEY) # req.token
           /\ "auth_token" \notin DOMAIN RUNTIME_CONFIG']_vars

\* a batch answered "deleted" has been handled
C1_Witness ==
    /\ Is2xx(resp) /\ StatusOf(resp) = "deleted"
    /\ req.kind = "batch"
    /\ changes = <<<<REGISTERED, DELETED>>, <<DELETED, REINITIALIZED>>>>
    /\ pc = "loop_top"
    /\ client_id_file = 2

\* C2: the state becomes REGISTERED only when a registration response is
\* handled that has HTTP status 200, status "accepted" and an auth_token equal
\* to the credential derived from the persisted identifier.
C2_RegisteredOnlyByAcceptedRegistration ==
    [][(\E i \in DOMAIN changes' : changes'[i][2] = REGISTERED)
        => /\ pc = "reg_wait"
           /\ resp'.code = 200 /\ StatusOf(resp') = "accepted"
           /\ "auth_token" \in DOMAIN resp'.body
           /\ resp'.body["auth_token"] = generate_token(client_id_file, SERVER_SECRET_KEY)]_vars

\* an accepted registration has set the state to REGISTERED
C2_Witness ==
    /\ state = REGISTERED
    /\ changes = <<<<REGISTERING, REGISTERED>>>>
    /\ StatusOf(resp) = "accepted"
    /\ pc = "first_wait"

\* C3: a pass of the orchestration loop that starts with the state
\* REINITIALIZED or SLEEP_RETRY sets the state to SLEEP_RETRY and registers
\* inside the sleep-retry loop.
C3_PassAfterDeletionEntersSleepRetry ==
    [][(pc = "loop_top" /\ state \in {REINITIALIZED, SLEEP_RETRY})
        => (state' = SLEEP_RETRY /\ in_sleep_retry')]_vars

\* C4: when should_stop_registration() or should_stop_reporting() is evaluated
\* in state ERROR: with at least 300 s elapsed since ERROR was entered the
\* state becomes UNREGISTERED (no delete marker) or REINITIALIZED through the
\* reinitialize procedure (delete marker), and the operation returns false;
\* with fewer than 300 s and error_retry_count < 10 the state stays ERROR and
\* the operation returns true.
C4_ErrorAutoRecovery ==
    [][(pc' \in {"should_stop_registration", "should_stop_reporting"} /\ state = ERROR)
        => IF now - error_start_time >= 300
           THEN /\ ~ret'
                /\ ~delete_marker => /\ state' = UNREGISTERED
                                     /\ client_id_file' = client_id_file
                /\ delete_marker => /\ state' = REINITIALIZED
                                    /\ client_id_file' \notin {0, client_id_file}
                                    /\ reinit_count' = reinit_count + 1
           ELSE error_retry_count < 10
                => (ret' /\ state' = ERROR /\ error_start_time' = error_start_time)]_vars

\* should_stop_reporting() has recovered from an ERROR that lasted 300 s or
\* more, through the reinitialize procedure
C4_Witness ==
    /\ pc = "should_stop_reporting"
    /\ changes = <<<<ERROR, REINITIALIZED>>>>
    /\ ~ret
    /\ delete_marker
    /\ suspended = HostSuspend

SentFlags(rows) == {<<rows[i].id, rows[i].sent>> : i \in DOMAIN rows}
NewlySent(old, new) ==
    {row.id : row \in {x \in Range(new) : x.sent /\ <<x.id, FALSE>> \in SentFlags(old)}}

\* C5: when the post of a batch fails (the call raises, the HTTP status is not
\* 2xx, or the body status is anything but "accepted", "deleted" included) no
\* sent flag changes and get_unsent returns the same records afterwards; and a
\* record is marked sent only on a 2xx response with status "accepted" to a
\* batch that contained it.
C5_FailedBatchMarksNothing ==
    [][/\ (pc = "batch_wait" /\ ~(Is2xx(resp') /\ StatusOf(resp') = "accepted"))
          => /\ SentFlags(cache') = SentFlags(cache)
             /\ get_unsent(cache', SEND_BATCH_SIZE) = get_unsent(cache, SEND_BATCH_SIZE)
       /\ NewlySent(cache, cache') # {}
          => /\ pc = "batch_wait"
             /\ Is2xx(resp') /\ StatusOf(resp') = "accepted"
             /\ NewlySent(cache, cache') \subseteq Range(req.ids)]_vars

\* a batch of two records has failed and both are still unsent
C5_Witness ==
    /\ req.kind = "batch" /\ Len(req.ids) = 2
    /\ resp.code = 500
    /\ Len(get_unsent(cache, SEND_BATCH_SIZE)) = 2
    /\ pc = "sleeping"

InBatch(row) == row.id \in Range(req.ids)
OutsideBatchUnchanged ==
    \A i \in DOMAIN cache : ~InBatch(cache[i]) => (i \in DOMAIN cache' /\ cache'[i] = cache[i])
BatchMarked == \A i \in DOMAIN cache' : InBatch(cache'[i]) => cache'[i].sent
\* the pushed configuration can be applied: every monitor item is an object
WellFormed(body) ==
    "monitor_items" \in DOMAIN body
        => \A i \in DOMAIN body["monitor_items"] : IsDict(body["monitor_items"][i])

C7_SendsUseCurrentIdentity ==
    pc \in ReportWaits
        => /\ client_id_file # 0
           /\ req.token = generate_token(client_id_file, SERVER_SECRET_KEY)
           /\ \A i \in DOMAIN req.client_ids : req.client_ids[i] = client_id_file
           /\ req.client_ids # <<>>

\* after a reinitialize, a batch with a record queued under the previous
\* identifier is in flight
C7_Witness ==
    /\ pc = "batch_wait"
    /\ reinit_count >= 1
    /\ \E i \in DOMAIN cache : InBatch(cache[i]) /\ cache[i].client_id # client_id_file

\* C8 as stated, last sentence: when a step of reinitialize_device fails, the
\* state becomes ERROR; a step has failed when the identifier was not replaced
\* or the persisted counter was not increased.
C8_FailedStepGivesError ==
    [][(pc' = "reinitialize_device"
          /\ (\/ client_id_file' \in {0, client_id_file}
              \/ reinit_count' # reinit_count + 1))
        => state' = ERROR]_vars

\* C8 amended: reinitialize_device replaces the persisted identifier by a new,
\* different one, removes auth_token, server_id and report_url from
\* RUNTIME_CONFIG and leaves its other keys unchanged, sets the state to
\* REINITIALIZED and increases the persisted counter by exactly 1; when
\* regenerating the identifier fails the state becomes ERROR and nothing else
\* changes; when only the state record or the counter cannot be written the
\* state is REINITIALIZED all the same and the record or counter stays as it was.
C8_ReinitializeDevice ==
    [][pc' = "reinitialize_device"
        => IF client_id_file' \notin {0, client_id_file}
           THEN /\ state' = REINITIALIZED
                /\ DOMAIN RUNTIME_CONFIG' = DOMAIN RUNTIME_CONFIG \ {"auth_token", "server_id", "report_url"}
                /\ \A k \in DOMAIN RUNTIME_CONFIG' : RUNTIME_CONFIG'[k] = RUNTIME_CONFIG[k]
                /\ monitor_config' = monitor_config
                /\ reinit_count' \in {reinit_count, reinit_count + 1}
                /\ state_file' \in {state_file, REINITIALIZED}
                /\ ~faults => (reinit_count' = reinit_count + 1 /\ state_file' = REINITIALIZED)
           ELSE /\ faults
                /\ state' = ERROR
                /\ RUNTIME_CONFIG' = RUNTIME_CONFIG
                /\ reinit_count' = reinit_count]_vars

\* reinitialize_device has rotated the identifier while the counter could not
\* be written
C8_Witness ==
    /\ pc = "reinitialize_device"
    /\ state = REINITIALIZED
    /\ client_id_file = 2
    /\ reinit_count = 0
    /\ "report_url" \notin DOMAIN RUNTIME_CONFIG

SpecifiedTransitions ==
    {<<UNREGISTERED, REGISTERING>>, <<REGISTERING, REGISTERED>>, <<ERROR, UNREGISTERED>>,
     <<ERROR, REINITIALIZED>>, <<DELETED, REINITIALIZED>>, <<REINITIALIZED, SLEEP_RETRY>>,
     <<SLEEP_RETRY, REGISTERED>>, <<SLEEP_RETRY, REINITIALIZED>>}
        \cup {<<s, ERROR>> : s \in ClientState} \cup {<<s, DELETED>> : s \in ClientState}

\* C9: every change of the lifecycle state made by the running agent is a
\* transition of the specified state machine; in particular REGISTERING is
\* entered only from UNREGISTERED.
C9_OnlySpecifiedTransitions ==
    [][\A i \in DOMAIN changes' : changes'[i] \in SpecifiedTransitions]_vars

REQUIRED_FIELDS ==
    {"server_id", "auth_token", "report_url", "report_interval", "monitor_items", "is_active"}

\* C11: when an accepted registration response lacks a required field or its
\* auth_token differs from the credential derived from the persisted
\* identifier, the state becomes ERROR, no change to REGISTERED is made, and
\* RUNTIME_CONFIG, API_ENDPOINT, AUTH_TOKEN and the monitoring mode are as before.
C11_BadAcceptedGivesError ==
    [][(/\ pc = "reg_wait" /\ StatusOf(resp') = "accepted"
        /\ \/ ~(REQUIRED_FIELDS \subseteq DOMAIN resp'.body)
           \/ resp'.body["auth_token"] # generate_token(client_id_file, SERVER_SECRET_KEY))
        => /\ state' = ERROR
           /\ \A i \in DOMAIN changes' : changes'[i][2] # REGISTERED
           /\ RUNTIME_CONFIG' = RUNTIME_CONFIG
           /\ API_ENDPOINT' = API_ENDPOINT
           /\ AUTH_TOKEN' = AUTH_TOKEN
           /\ monitor_config' = monitor_config]_vars

\* an accepted response without is_active has been handled
C11_Witness ==
    /\ StatusOf(resp) = "accepted"
    /\ "is_active" \notin DOMAIN resp.body
    /\ "auth_token" \in DOMAIN resp.body
    /\ changes = <<<<REGISTERING, ERROR>>>>
    /\ pc = "sleeping" /\ sleep_dur = REGISTER_FAILED_RETRY_INTERVAL

\* the accepted response passes every check of register_client
CompleteAccepted(r) ==
    /\ r.code = 200 /\ StatusOf(r) = "accepted"
    /\ REQUIRED_FIELDS \subseteq DOMAIN r.body
    /\ {"cpu", "memory", "disk", "gpu"} \subseteq DOMAIN r.body["monitor_items"]

\* C12: a pending registration response leaves the state REGISTERING and the
\* same request is posted again after the retry wait; an accepted response
\* that is complete and carries the matching credential sets the state to
\* REGISTERED (it stays REGISTERED when is_active is true) and the report
\* interval of RUNTIME_CONFIG to the value of the response.
C12_PendingThenAccepted ==
    [][/\ (pc = "reg_wait" /\ StatusOf(resp') = "pending")
          => /\ state' = REGISTERING /\ state = REGISTERING /\ changes' = <<>>
             /\ pc' = "sleeping" /\ after_sleep' = "reg_retry"
             /\ sleep_dur' = REGISTER_RETRY_INTERVAL
       /\ (pc = "sleeping" /\ after_sleep = "reg_retry" /\ pc' = "reg_wait")
          => (req' = req /\ state' = REGISTERING)
       /\ (/\ pc = "reg_wait" /\ CompleteAccepted(resp')
           /\ resp'.body["auth_token"] = generate_token(client_id_file, SERVER_SECRET_KEY))
          => /\ changes' # <<>> /\ changes'[1] = <<REGISTERING, REGISTERED>>
             /\ get_report_interval(RUNTIME_CONFIG') = resp'.body["report_interval"]
             /\ resp'.body["is_active"] => (state' = REGISTERED /\ Len(changes') = 1)]_vars

\* after one retry wait of 30 s the registration has been accepted and the
\* report interval is the server's
C12_Witness ==
    /\ state = REGISTERED
    /\ changes = <<<<REGISTERING, REGISTERED>>>>
    /\ now = StartTime + REGISTER_RETRY_INTERVAL /\ suspended = 0
    /\ get_report_interval(RUNTIME_CONFIG) = 60
    /\ StatusOf(resp) = "accepted"

\* C13: a StateManager constructed (default policy flags) over a persisted
\* ERROR or REGISTERING starts UNREGISTERED and has persisted UNREGISTERED;
\* over any other persisted state it starts in that state and the record is
\* untouched; over a missing or unreadable record it starts UNREGISTERED; both
\* error counters are 0 in every case.
C13_StartupState ==
    [][pc' = "constructed"
        => /\ error_start_time' = 0 /\ error_retry_count' = 0
           /\ IF state_file \in {ERROR, REGISTERING}
              THEN state' = UNREGISTERED /\ state_file' = UNREGISTERED
              ELSE IF state_file \in {"absent", "corrupt"}
              THEN state' = UNREGISTERED /\ state_file' = state_file
              ELSE state' = state_file /\ state_file' = state_file]_vars

\* the agent has been started again, some time after its first start and
\* with a delete marker present, and its StateManager starts UNREGISTERED
C13_Witness ==
    /\ pc = "constructed"
    /\ state = UNREGISTERED /\ state_file = UNREGISTERED
    /\ now > StartTime
    /\ delete_marker

Ids(rows) == {rows[i].id : i \in DOMAIN rows}
UnsentIds(rows) == {rows[i].id : i \in {j \in DOMAIN rows : ~rows[j].sent}}
Min(a, b) == IF a <= b THEN a ELSE b

\* C14: a saved record gets an id greater than every id issued before (ids of
\* pruned records included), the records are kept unchanged otherwise; and
\* get_unsent(limit) returns min(limit, number of unsent records) records, all
\* of them unsent records of the queue, in strictly ascending id order, and
\* every unsent record it leaves out has a greater id than those returned.
C14_IdsAndGetUnsent ==
    [][/\ next_id' >= next_id
       /\ \A i \in DOMAIN cache' : cache'[i].id < next_id'
       /\ pc' = "save"
          => /\ Len(cache') = Len(cache) + 1
             /\ SubSeq(cache', 1, Len(cache)) = cache
             /\ cache'[Len(cache')].id >= next_id
             /\ \A i \in DOMAIN cache : cache[i].id < cache'[Len(cache')].id
             /\ ~cache'[Len(cache')].sent
       /\ pc' = "get_unsent"
          => LET r == ret'.rows
             IN /\ cache' = cache
                /\ Len(r) = Min(ret'.limit, Cardinality(UnsentIds(cache)))
                /\ \A i \in DOMAIN r : r[i] \in Range(cache) /\ ~r[i].sent
                /\ \A i, j \in DOMAIN r : i < j => r[i].id < r[j].id
                /\ \A u \in UnsentIds(cache) \ Ids(r) : \A i \in DOMAIN r : r[i].id < u]_vars

\* get_unsent(2) has returned the records 2 and 3 of a queue whose record 1
\* is marked sent
C14_Witness ==
    /\ pc = "get_unsent"
    /\ ret.limit = 2
    /\ Len(cache) = 3 /\ cache[1].sent
    /\ Len(ret.rows) = 2 /\ ret.rows[1].id = 2 /\ ret.rows[2].id = 3

\* C15: prune(max_age_seconds) deletes exactly the records whose timestamp
\* is less than now - max_age_seconds, sent or not, and leaves every other
\* record, their order and the id counter unchanged.
C15_PruneByAge ==
    [][pc' = "prune"
        => LET threshold == now - ret'.max_age_seconds
               kept == {i \in DOMAIN cache : ~(cache[i].timestamp < threshold)}
           IN /\ Len(cache') = Cardinality(kept)
              /\ \A i \in DOMAIN cache : (i \in kept) <=> (cache[i] \in Range(cache'))
              /\ \A i \in DOMAIN cache' : cache'[i] \in Range(cache)
              /\ \A i, j \in DOMAIN cache' : i < j => cache'[i].id < cache'[j].id
              /\ next_id' = next_id /\ now' = now]_vars

\* prune(30) has deleted record 1 and kept the records 2 (unsent) and 3
\* (sent), which are less than 30 s old
C15_Witness ==
    /\ pc = "prune"
    /\ ret.max_age_seconds = REGISTER_RETRY_INTERVAL
    /\ Len(cache) = 2
    /\ cache[1].id = 2 /\ ~cache[1].sent
    /\ cache[2].id = 3 /\ cache[2].sent
    /\ cache[1].timestamp > now - REGISTER_RETRY_INTERVAL

\* C16: mark_sent(ids) sets the sent flag of exactly the records whose id is
\* in ids and changes nothing else (nothing at all for an empty list or ids
\* that are not present); and no operation of the queue turns a sent flag
\* back to false.
C16_MarkSentExact ==
    [][/\ pc' = "mark_sent"
          => /\ DOMAIN cache' = DOMAIN cache
             /\ \A i \in DOMAIN cache :
                   cache'[i] = IF cache[i].id \in Range(ret'.ids)
                               THEN [cache[i] EXCEPT !.sent = TRUE] ELSE cache[i]
             /\ (Range(ret'.ids) \cap Ids(cache) = {}) => cache' = cache
             /\ next_id' = next_id
       /\ \A i \in DOMAIN cache, j \in DOMAIN cache' :
             (cache[i].id = cache'[j].id /\ cache[i].sent) => cache'[j].sent]_vars

\* mark_sent([2, 4]) on a queue of the records 1, 2, 3 has marked record 2 only
C16_Witness ==
    /\ pc = "mark_sent"
    /\ ret.ids = <<2, 4>>
    /\ Len(cache) = 3
    /\ ~cache[1].sent /\ cache[2].sent /\ ~cache[3].sent

\* what the configuration says, read off the variables
ActiveFlag == IF "is_active" \in DOMAIN RUNTIME_CONFIG THEN RUNTIME_CONFIG["is_active"] ELSE TRUE
SomeFamilyEnabled ==
    \E i \in DOMAIN RUNTIME_CONFIG["monitor_items"] :
        LET item == RUNTIME_CONFIG["monitor_items"][i]
        IN IsDict(item) /\ "enabled" \in DOMAIN item /\ item["enabled"]
WindowActive(in_window) ==
    CASE monitor_config.mode = "SCHEDULED" -> (monitor_config.schedule = EmptyDict \/ in_window)
      [] monitor_config.mode = "COUNTDOWN" -> (monitor_config.countdown # EmptyDict /\ in_window)
      [] OTHER -> TRUE

\* C17: should_send_heartbeat() returns true iff the active flag is false, or
\* no metric family is enabled, or the monitoring window is inactive now; its
\* reason is that of the first of these conditions that holds, in this order,
\* and it is empty when the result is false.
C17_HeartbeatDecision ==
    [][pc' = "should_send_heartbeat"
        => LET w == WindowActive(ret'.in_window)
           IN /\ ret'.send <=> (~ActiveFlag \/ ~SomeFamilyEnabled \/ ~w)
              /\ ret'.reason = IF ~ActiveFlag THEN REASON_SERVER_INACTIVE
                               ELSE IF ~SomeFamilyEnabled THEN REASON_ALL_DISABLED
                               ELSE IF ~w THEN REASON_OUTSIDE_WINDOW
                               ELSE REASON_NONE
              /\ ret'.send <=> (ret'.reason # REASON_NONE)]_vars

\* with the active flag false, every metric family enabled and the window
\* open, the result is true with the server-inactive reason
C17_Witness ==
    /\ pc = "should_send_heartbeat"
    /\ "is_active" \in DOMAIN RUNTIME_CONFIG /\ ~RUNTIME_CONFIG["is_active"]
    /\ RUNTIME_CONFIG["monitor_items"] = DEFAULT_MONITOR_ITEMS
    /\ monitor_config.mode = "CONTINUOUS"
    /\ ret.send /\ ret.reason = REASON_SERVER_INACTIVE

\* C18: after an accepted register or report response that carries is_active
\* has been handled, RUNTIME_CONFIG holds that value, so that
\* is_server_active() returns it and should_send_heartbeat() is true exactly
\* when it is false (the metric families being enabled and the window open).
C18_ActiveFlagStored ==
    [][(/\ \/ pc \in ReportWaits /\ Is2xx(resp') /\ StatusOf(resp') = "accepted"
           \/ /\ pc = "reg_wait" /\ CompleteAccepted(resp')
              /\ resp'.body["auth_token"] = generate_token(client_id_file, SERVER_SECRET_KEY)
        /\ "is_active" \in DOMAIN resp'.body)
        => /\ is_server_active(RUNTIME_CONFIG') = resp'.body["is_active"]
           /\ (~resp'.body["is_active"]) => heartbeat_reason(
                    [RUNTIME_CONFIG |-> RUNTIME_CONFIG', monitor_config |-> monitor_config'],
                    TRUE) = REASON_SERVER_INACTIVE]_vars

\* a response that makes the communication a success: 2xx, and a JSON body
\* says "accepted"
Successful(r) == Is2xx(r) /\ (r.kind = "json" => StatusOf(r) = "accepted")

\* C19: in the collection loop last_activity_time is advanced only by a
\* successful communication with the server: a step that handles the
\* response to a report and changes last_activity_time handles a success.
C19_ActivityOnlyOnSuccess ==
    [][(pc \in ReportWaits /\ last_activity_time' # last_activity_time)
        => Successful(resp')]_vars

\* C20: every record of the queue is a metrics sample, never a heartbeat; a
\* heartbeat in flight is a single payload posted by send_immediate with no
\* record id attached, and a heartbeat that fails adds nothing to the queue
\* (after a failed forced heartbeat the tick goes on and may queue its sample).
C20_NoHeartbeatQueued ==
    [][/\ \A i \in DOMAIN cache' : ~cache'[i].heartbeat
       /\ pc' \in {"hb_wait", "fhb_wait"}
          => (req'.kind = "heartbeat" /\ req'.ids = <<>> /\ Len(req'.client_ids) = 1)
       /\ (pc = "hb_wait" /\ ~Successful(resp')) => cache' = cache
       /\ (pc = "fhb_wait" /\ ~Successful(resp'))
          => (Len(cache') >= Len(cache) /\ SubSeq(cache', 1, Len(cache)) = cache)]_vars

\* a heartbeat could not be sent and has been dropped, the queue still
\* holding its one sample
C20_Witness ==
    /\ req.kind = "heartbeat"
    /\ resp.kind = "exc"
    /\ pc = "sleeping" /\ after_sleep = "tick"
    /\ Len(cache) = 1 /\ ~cache[1].heartbeat

\* C21: when a report response (immediate or batch path) is 2xx with a JSON
\* body whose status is neither "accepted" nor "deleted", RUNTIME_CONFIG, the
\* monitoring mode, every record of the queue and the lifecycle state stay as
\* they were, and the send has failed: send_immediate returns false and the
\* time of the last activity is not advanced; the batch stays unsent.
C21_RejectionChangesNothing ==
    [][(/\ pc \in ReportWaits /\ Is2xx(resp') /\ resp'.kind = "json"
        /\ StatusOf(resp') \notin {"accepted", "deleted"})
        => /\ RUNTIME_CONFIG' = RUNTIME_CONFIG
           /\ API_ENDPOINT' = API_ENDPOINT
           /\ monitor_config' = monitor_config
           /\ state' = state /\ changes' = <<>>
           /\ \A i \in DOMAIN cache : i \in DOMAIN cache' /\ cache'[i] = cache[i]
           /\ pc # "batch_wait" => (~ret' /\ last_activity_time' = last_activity_time)
           /\ pc = "batch_wait"
              => get_unsent(cache', SEND_BATCH_SIZE) = get_unsent(cache, SEND_BATCH_SIZE)]_vars

\* a batch of two records has been rejected with a body that carries
\* configuration, and the report interval is still the registered one
C21_Witness ==
    /\ req.kind = "batch" /\ Len(req.ids) = 2
    /\ Is2xx(resp) /\ StatusOf(resp) = "rejected"
    /\ "report_interval" \in DOMAIN resp.body
    /\ get_report_interval(RUNTIME_CONFIG) # resp.body["report_interval"]
    /\ monitor_config.mode = "CONTINUOUS"
    /\ Len(get_unsent(cache, SEND_BATCH_SIZE)) = 2

DeletedBody == Json(200, [status |-> "deleted"])
\* w without the response it has recorded
SameBut(w) == [w EXCEPT !.resp = NoResponse]

\* C22: a report response 403 with error_code DEVICE_DELETED has the effect
\* of a 2xx response with status "deleted" on both send paths: the deletion
\* callback runs exactly once (state -> DELETED -> REINITIALIZED, the
\* reinitialization counter goes up by 1), no record is marked sent, no
\* configuration is applied (RUNTIME_CONFIG only loses the keys reinitialize
\* clears), and send_immediate returns false.
C22_DeletedErrorCode ==
    [][(/\ pc \in ReportWaits /\ resp'.code = 403 /\ resp'.kind = "json"
        /\ Get(resp'.body, "error_code", "") = "DEVICE_DELETED")
        => /\ changes' = <<<<state, DELETED>>, <<DELETED, REINITIALIZED>>>>
           /\ reinit_count' = reinit_count + 1
           /\ client_id_file' \notin {0, client_id_file}
           /\ NewlySent(cache, cache') = {}
           /\ DOMAIN RUNTIME_CONFIG' = DOMAIN RUNTIME_CONFIG \ {"auth_token", "server_id", "report_url"}
           /\ \A k \in DOMAIN RUNTIME_CONFIG' : RUNTIME_CONFIG'[k] = RUNTIME_CONFIG[k]
           /\ monitor_config' = monitor_config
           /\ pc # "batch_wait" => ~ret'
           /\ pc = "batch_wait"
              => SameBut(send_response(World, resp', req.ids, IoOk))
                   = SameBut(send_response(World, DeletedBody, req.ids, IoOk))
           /\ pc # "batch_wait"
              => SameBut(send_immediate_response(World, resp', IoOk).w)
                   = SameBut(send_immediate_response(World, DeletedBody, IoOk).w)]_vars

\* a batch of two records has been answered 403 DEVICE_DELETED: the agent is
\* reinitialized and both records are still unsent
C22_Witness ==
    /\ req.kind = "batch" /\ Len(req.ids) = 2
    /\ resp.code = 403 /\ Get(resp.body, "error_code", "") = "DEVICE_DELETED"
    /\ state = REINITIALIZED /\ reinit_count = 1
    /\ Len(get_unsent(cache, SEND_BATCH_SIZE)) = 2
    /\ pc = "loop_top"

\* an accepted report response whose configuration is applied
Applied(r) ==
    /\ Is2xx(r) /\ StatusOf(r) = "accepted"
    /\ Get(r.body, "is_active", TRUE) /\ WellFormed(r.body)

\* C23: when the configuration of an accepted report response is applied,
\* the monitor items are merged per item and per sub-field (an item absent
\* from the response is untouched, a sub-field absent from the response keeps
\* its value), while the monitoring-mode descriptor is replaced as a whole:
\* mode, schedule and countdown absent from it become CONTINUOUS and empty.
C23_ItemsMergedModeReplaced ==
    [][(pc \in ReportWaits /\ Applied(resp'))
        => /\ "monitor_items" \in DOMAIN resp'.body
              => LET old == RUNTIME_CONFIG["monitor_items"]
                     new == RUNTIME_CONFIG'["monitor_items"]
                     pushed == resp'.body["monitor_items"]
                 IN /\ DOMAIN new = DOMAIN old \cup DOMAIN pushed
                    /\ \A i \in DOMAIN old \ DOMAIN pushed : new[i] = old[i]
                    /\ \A i \in DOMAIN pushed \cap DOMAIN old :
                          /\ DOMAIN old[i] \cup DOMAIN pushed[i] \subseteq DOMAIN new[i]
                          /\ \A k \in DOMAIN pushed[i] : new[i][k] = pushed[i][k]
                          /\ \A k \in DOMAIN old[i] \ DOMAIN pushed[i] : new[i][k] = old[i][k]
           /\ "monitor_items" \notin DOMAIN resp'.body
              => RUNTIME_CONFIG'["monitor_items"] = RUNTIME_CONFIG["monitor_items"]
           /\ "monitor_config" \in DOMAIN resp'.body
              => LET d == resp'.body["monitor_config"]
                 IN /\ monitor_config'.mode = Get(d, "mode", "CONTINUOUS")
                    /\ monitor_config'.schedule = Get(d, "schedule", EmptyDict)
                    /\ monitor_config'.countdown = Get(d, "countdown", EmptyDict)
                    /\ RUNTIME_CONFIG'["monitor_config"] = d
           /\ "monitor_config" \notin DOMAIN resp'.body
              => monitor_config' = monitor_config]_vars

\* after a push of all four items and a later push of one sub-field of gpu
\* with a descriptor holding a countdown only: cpu keeps the earlier push, gpu
\* keeps its other sub-fields, the mode is CONTINUOUS and the schedule empty
C23_Witness ==
    /\ resp.code = 201 /\ StatusOf(resp) = "accepted"
    /\ RUNTIME_CONFIG["monitor_items"]["cpu"] =
          [enabled |-> TRUE, collect_temp |-> FALSE, collect_power |-> TRUE]
    /\ RUNTIME_CONFIG["monitor_items"]["gpu"] =
          [enabled |-> FALSE, collect_temp |-> FALSE, collect_power |-> TRUE]
    /\ monitor_config = [mode |-> "CONTINUOUS", schedule |-> EmptyDict,
                         countdown |-> [end_time |-> "2030-01-01T00:00:10Z"]]

\* the minute of the day an HH:MM string of digits denotes
MinuteOf(t) == (t[1] * 10 + t[2]) * 60 + t[3] * 10 + t[4]
DaysOf(mc) == Get(mc.schedule, "days", <<>>)
RangeSet(mc) ==
    /\ Get(mc.schedule, "start_time", <<>>) # <<>>
    /\ Get(mc.schedule, "end_time", <<>>) # <<>>
Answered == pc = "is_monitoring_time"
\* the weekday codes of a schedule, Monday first
DayCodes == <<"1", "2", "3", "4", "5", "6", "7">>

\* C24: in SCHEDULED mode is_monitoring_time() is true exactly when the days
\* list is empty or holds the code of the current local weekday ("1" = Monday
\* .. "7" = Sunday), and the time range is unset or start_time <= the current
\* local HH:MM <= end_time, both ends included; with days 1..5 and 09:00-18:00
\* it is false on Saturday 10:00 and true on Tuesday 10:00.
C24_ScheduledWindow ==
    (Answered /\ monitor_config.mode = "SCHEDULED")
    => /\ ret.active
          <=> /\ \/ DaysOf(monitor_config) = <<>>
                 \/ \E i \in 1..Len(DaysOf(monitor_config)) :
                        DaysOf(monitor_config)[i] = DayCodes[ret.clock.weekday + 1]
              /\ \/ ~RangeSet(monitor_config)
                 \/ /\ MinuteOf(monitor_config.schedule["start_time"]) <= ret.clock.minute
                    /\ ret.clock.minute <= MinuteOf(monitor_config.schedule["end_time"])
       /\ (/\ DaysOf(monitor_config) = <<"1", "2", "3", "4", "5">>
           /\ RangeSet(monitor_config)
           /\ monitor_config.schedule["start_time"] = <<0, 9, 0, 0>>
           /\ monitor_config.schedule["end_time"] = <<1, 8, 0, 0>>
           /\ ret.clock.minute = 600)
          => /\ ret.clock.weekday = 5 => ~ret.active
             /\ ret.clock.weekday = 1 => ret.active

\* is_monitoring_time has answered true at 18:00 on a Friday for the schedule
\* days 1..5, 09:00-18:00
C24_Witness ==
    /\ Answered /\ monitor_config.mode = "SCHEDULED"
    /\ DaysOf(monitor_config) = <<"1", "2", "3", "4", "5">>
    /\ RangeSet(monitor_config)
    /\ monitor_config.schedule["start_time"] = <<0, 9, 0, 0>>
    /\ monitor_config.schedule["end_time"] = <<1, 8, 0, 0>>
    /\ ret.clock.weekday = 4 /\ ret.clock.minute = 1080
    /\ ret.active

\* the end time of the descriptor and what it denotes
EndOf(mc) == Get(mc.countdown, "end_time", "")
\* the current time is strictly before the end time: in UTC for an end time
\* tagged Z, in local time for an untagged one
BeforeEnd(mc, c) ==
    \/ EndOf(mc) = END_UTC /\ c.utc < 10
    \/ EndOf(mc) = END_LOCAL /\ c.utc + c.tz < 10

C26_SleepRetryIntervals ==
    pc = "sleep_and_retry_register"
    => /\ ret.retry_count = 0 => ret.sleep_interval = 0
       /\ ret.retry_count = 1 => ret.sleep_interval = 60
       /\ ret.retry_count = 2 => ret.sleep_interval = 120
       /\ ret.retry_count >= 3 => ret.sleep_interval = 300
       /\ ret.sleep_interval <= 300
       /\ \A m \in 0..ret.retry_count : get_sleep_retry_interval(m) <= ret.sleep_interval

\* sleep_and_retry_register has slept through the wait of a retry count
\* beyond 3
C26_Witness ==
    /\ pc = "sleep_and_retry_register"
    /\ ret.retry_count > 3 /\ ret.result
    /\ ret.sleep_interval = 300
    /\ now >= StartTime + 300
C28_NoResponseEndsMain ==
    [][(pc \in ReportWaits \cup {"reg_wait"}) => pc' \notin {"exited", "crashed"}]_vars
\* C29: an external interrupt that arrives while main() waits (the retry wait
\* inside register_client, the wait after a rejected registration, the
\* sleep-retry wait, or any other sleep) ends main(): no further request is
\* made and the lifecycle state does not change. A step out of a wait in
\* which no time passes is the interrupt.
C29_InterruptEndsMain ==
    [][(pc = "sleeping" /\ sleep_dur > 0 /\ now' = now)
        => /\ pc' = "exited"
           /\ state' = state
           /\ req' = req]_vars
\* the step reinitialized the device: by reinitialize_device called directly,
\* by the handling of a deletion, or by error recovery with a delete marker
ReinitializedBy(ops) ==
    /\ state' = REINITIALIZED
    /\ reinit_count' = reinit_count + 1
    /\ pc' \in ops \/ delete_marker

\* C30: get_client_id() returns the persisted identifier, the same on every
\* call and across restarts while the persisted identifier is intact, and
\* generates and persists a new one only when it is absent or empty; the
\* persisted identifier changes only through reinitialization (or an explicit
\* client reset), not through state changes, time passing, restarts or error
\* recovery without a delete marker.
C30_IdentifierStable ==
    [][/\ pc' = "get_client_id"
          => /\ ret' = client_id_file' /\ ret' # 0
             /\ client_id_file # 0 => client_id_file' = client_id_file
             /\ client_id_file = 0 => client_id_file' = uuid_count + 1
       /\ (pc' = "constructed" /\ client_id_file # 0) => client_id_file' = client_id_file
       /\ (client_id_file # 0 /\ client_id_file' # client_id_file)
          => \/ pc' \in {"reset_client", "erase_id_file"}
             \/ ReinitializedBy({"reinitialize_device", "handle_device_deleted_response"})]_vars

\* get_client_id has returned an identifier that it or a restart generated
\* because none was persisted, without any reinitialization
C30_Witness ==
    /\ pc = "get_client_id"
    /\ ret = client_id_file /\ ret = 2
    /\ uuid_count = 2 /\ reinit_count = 0
\* C31: a set_state(ERROR) request made while the state is already ERROR
\* increments error_retry_count by one and leaves error_start_time unchanged
\* (so that ten repeated failures trigger auto-recovery before 300 s). A
\* set_state call that finds ERROR and leaves ERROR is a request for ERROR.
C31_RepeatedErrorCounts ==
    [][(pc' = "set_state" /\ state = ERROR /\ state' = ERROR)
        => /\ error_retry_count' = error_retry_count + 1
           /\ error_start_time' = error_start_time]_vars
\* C32: in every reachable state a lifecycle state other than ERROR implies
\* error_start_time = 0 and error_retry_count = 0: every operation that moves
\* the state out of ERROR resets both fields.
C32_ErrorFieldsCleared ==
    state # ERROR => (error_start_time = 0 /\ error_retry_count = 0)
\* C33: after every set_state call that changes the state the in-memory
\* state is the requested one and the state file names the same state, unless
\* the write failed; after a failed write the in-memory state is still the
\* new one and the file is as it was. Stated for the call made in the step and
\* for every call that could be made in the state.
C33_StateSavedUnlessWriteFails ==
    [][/\ (pc' = "set_state" /\ state' # state)
          => /\ changes' = <<<<state, state'>>>>
             /\ state_file' = state' \/ (faults /\ state_file' = state_file)
       /\ \A new_state \in ClientState \ {state}, io \in SaveOutcomes(faults) :
             LET w == set_state(World, new_state, now, io)
             IN /\ w.state = new_state
                /\ io.state_write => w.state_file = new_state
                /\ ~io.state_write => w.state_file = state_file]_vars

\* set_state has moved the state while the write of the state file failed:
\* the file still names the state before
C33_Witness ==
    /\ pc = "set_state" /\ faults
    /\ changes # <<>> /\ state = changes[1][2]
    /\ state_file = changes[1][1] /\ state_file # state
\* the place of each operation in one tick of the collection loop
TickOrder ==
    <<"state_checks", "forced_heartbeat", "heartbeat_decision", "heartbeat", "collection",
      "queue_save", "send_batch", "batch_response", "prune">>
Rank(s) == CHOOSE n \in 1..Len(TickOrder) : TickOrder[n] = s
Ran(sq, s) == \E i \in 1..Len(sq) : sq[i] = s
RanBefore(sq, a, b) == \E i, j \in 1..Len(sq) : i < j /\ sq[i] = a /\ sq[j] = b

\* C34: within one tick the operations run in the order state checks,
\* heartbeat decision, collection, queue save, send_batch, prune; prune never
\* runs before send_batch nor send_batch before the queue save of the tick's
\* sample (the batch posted holds the row just saved); between the post of a
\* tick's batch and its answer nothing of another tick runs, and a tick
\* starts only where the previous one ended.
C34_TickOrder ==
    [][/\ \A i, j \in 1..Len(steps') : i < j => Rank(steps'[i]) < Rank(steps'[j])
       /\ Ran(steps', "prune") => (pc = "batch_wait" \/ RanBefore(steps', "send_batch", "prune"))
       /\ Ran(steps', "send_batch")
          => /\ RanBefore(steps', "collection", "queue_save")
             /\ RanBefore(steps', "queue_save", "send_batch")
             /\ RanBefore(steps', "heartbeat_decision", "collection")
       /\ pc' = "batch_wait"
          => /\ cache' # <<>> /\ cache'[Len(cache')].id = next_id
             /\ \E i \in 1..Len(req'.ids) : req'.ids[i] = next_id
       /\ Ran(steps', "state_checks") => (pc = "tick" /\ steps'[1] = "state_checks")
       /\ pc = "batch_wait" => steps'[1] = "batch_response"
       /\ pc \in {"hb_wait", "fhb_wait", "first_wait"} => ~Ran(steps', "state_checks")]_vars

\* a tick has ended: its batch was answered and the queue pruned
C34_Witness ==
    /\ pc = "sleeping" /\ after_sleep = "tick"
    /\ req.kind = "batch"
    /\ steps = <<"batch_response", "prune">>
\* C35: whenever the collection loop collects, queues or sends a metrics
\* sample the lifecycle state is REGISTERED, also right after
\* should_stop_reporting() has recovered the state out of ERROR.
C35_ReportsOnlyRegistered ==
    [][(Ran(steps', "collection") \/ Ran(steps', "queue_save") \/ Ran(steps', "send_batch"))
        => state' = REGISTERED]_vars
\* the step handles a deletion answer to a report or heartbeat
HandlesDeletion == pc \in ReportWaits /\ ReportsDeletion(resp')

\* C36: after a deletion signal has been handled during a report or
\* heartbeat send, the agent sends no further report and no further heartbeat
\* until a later registration request has been answered accepted: the step
\* that handles the deletion posts nothing, and while the state is one of
\* DELETED, REINITIALIZED, SLEEP_RETRY nothing is posted to the report URL.
C36_SilentAfterDeletion ==
    [][/\ HandlesDeletion => pc' \notin ReportWaits
       /\ (state \in {DELETED, REINITIALIZED, SLEEP_RETRY} /\ pc \notin ReportWaits)
          => pc' \notin ReportWaits]_vars
AllSent(w, ids) ==
    \A i \in 1..Len(w.cache) :
        (\E j \in 1..Len(ids) : ids[j] = w.cache[i].id) => w.cache[i].sent

\* C38: for the same HTTP response send_immediate and send_batch agree:
\* send_immediate returns success exactly when send_batch marks its batch
\* sent, and both leave the same RuntimeConfig; also for a 2xx response whose
\* body cannot be parsed and for an accepted response with is_active false.
\* Stated where a batch awaits its answer, for every answer.
C38_SendPathsAgree ==
    pc = "batch_wait"
    => \A r \in ReportResponses :
          LET a == send_immediate_response(World, r, IoOk)
              b == send_response(World, r, req.ids, IoOk)
          IN /\ a.ret <=> AllSent(b, req.ids)
             /\ a.w.RUNTIME_CONFIG = b.RUNTIME_CONFIG
\* ------------------------------------- registration under a willing server
\* main()'s registration loop up to the entry of the collection loop. The
\* server may answer anything during the first MaxTime seconds; later it
\* answers accepted with the agent's own credential, every field and
\* is_active true. MaxSettle more seconds are followed.
MaxSettle == 1900

WillingAnswer(cid) == Json(200, Accepted(generate_token(cid, SERVER_SECRET_KEY), TRUE))

LiveStep(w) ==
    \E v \in {w} :
        /\ v.now <= StartTime + MaxTime + MaxSettle
        /\ v.uuid_count <= MaxUuid + 1
        /\ v.pc # "crashed"
        /\ Commit(v)

LiveLoopTop ==
    /\ pc = "loop_top"
    /\ LiveStep(RunLoopTop(World, IoOk))

LiveWake ==
    /\ pc = "sleeping"
    /\ LiveStep(RunWake(World, 0))

\* the server accepts the registration
LiveRegisterAccepted ==
    /\ pc = "reg_wait"
    /\ \E w0 \in {World}, r \in {WillingAnswer(my_client_id)} :
         \E w \in {RunRegisterResponse(w0, r, IoOk)} : LiveStep(w)

\* the server answers something else, or not at all; the last identifier of
\* the model is left to a reinitialization that follows a delete marker
LiveRegisterOther ==
    /\ pc = "reg_wait"
    /\ now <= StartTime + MaxTime
    /\ \E r \in RegisterResponses(my_client_id) \ {WillingAnswer(my_client_id)} :
         \E w \in {RunRegisterResponse(World, r, IoOk)} :
            w.uuid_count <= MaxUuid /\ LiveStep(w)

\* the first sample is answered, in the first MaxTime seconds
LiveFirstSampleResponse ==
    /\ pc = "first_wait"
    /\ now <= StartTime + MaxTime
    /\ \E r \in ReportResponses :
         \E w \in {RunFirstSampleResponse(World, r, IoOk)} :
            w.uuid_count <= MaxUuid /\ LiveStep(w)

\* the tick of an agent that is no longer REGISTERED: it leaves the
\* collection loop, or goes on in it
LiveTick ==
    /\ pc = "tick"
    /\ state # REGISTERED
    /\ \E w \in {RunTick(World, IoOk, TRUE)} : LiveStep(w)

\* an operator's tool writes .client_delete_marker
LiveCreateDeleteMarker ==
    /\ ~delete_marker
    /\ state = ERROR
    /\ now <= StartTime + MaxTime
    /\ LiveStep([World EXCEPT !.delete_marker = TRUE])

NextLive ==
    \/ LiveLoopTop
    \/ LiveWake
    \/ LiveRegisterAccepted
    \/ LiveRegisterOther
    \/ LiveFirstSampleResponse
    \/ LiveTick
    \/ LiveCreateDeleteMarker

\* SF_vars(LiveRegisterAccepted) written out; the action is enabled exactly
\* when a registration awaits its answer
RegisterAcceptedFair ==
    <>[](pc # "reg_wait") \/ []<><<LiveRegisterAccepted>>_vars

\* the loop runs on, every sleep returns, and the server does not withhold
\* the accepted answer forever
SpecLive ==
    /\ Init /\ [][NextLive]_vars
    /\ WF_vars(LiveLoopTop) /\ WF_vars(LiveWake) /\ WF_vars(LiveTick)
    /\ RegisterAcceptedFair

\* ------------------------------------------ the queue after an outage ends
\* The collection loop of a registered agent whose batch posts fail for up to
\* MaxBacklog ticks and are answered cleanly afterwards, DrainTicks more ticks.
MaxBacklog == 22
DrainTicks == 3

DrainAccepted == Json(200, [status |-> "accepted", is_active |-> TRUE])
DrainSpoiled == Json(200, [status |-> "accepted", is_active |-> TRUE,
                           monitor_items |-> [cpu |-> NotADict]])
\* what POST /report answers here: no answer, accepted, accepted with a
\* monitor item that is no object
DrainAnswers == {Exc, DrainAccepted, DrainSpoiled}

\* the configuration section of Sender.send raises on this answer
Spoils(r) == r.kind = "json" /\ ~ApplyPushedConfig(World, r.body).ok

DrainStep(w) ==
    /\ w.next_id <= MaxBacklog + DrainTicks + 1
    /\ Commit(w)

InitDrain == InitWith(FALSE, "tick") /\ state = REGISTERED

\* one tick of the collection loop, inside the monitoring window
DrainTick ==
    /\ pc = "tick"
    /\ \E w \in {RunTick(World, IoOk, TRUE)} : DrainStep(w)

\* the answer to the tick's batch; only the first MaxBacklog ticks may fail
DrainBatchResponse ==
    /\ pc = "batch_wait"
    /\ \E r \in DrainAnswers :
         /\ r # DrainAccepted => next_id <= MaxBacklog + 1
         /\ \E w \in {AfterSend(send_response(Did([World EXCEPT !.resp = r], "batch_response"),
                                              r, req.ids, IoOk))} : DrainStep(w)

\* time.sleep(report_interval) returns
DrainWake ==
    /\ pc = "sleeping"
    /\ \E w \in {[World EXCEPT !.now = now + sleep_dur, !.pc = after_sleep,
                                 !.sleep_dur = 0, !.after_sleep = "none"]} : DrainStep(w)

NextDrain == DrainTick \/ DrainBatchResponse \/ DrainWake

\* the loop runs on: the sleep returns, the tick runs, and requests.post
\* returns or raises within its timeout
SpecDrain ==
    /\ InitDrain /\ [][NextDrain]_vars
    /\ WF_vars(DrainTick) /\ WF_vars(DrainBatchResponse) /\ WF_vars(DrainWake)

Backlog(rows) == Len(SelectSeq(rows, IsUnsent))
AcceptedActive(r) ==
    /\ r.kind = "json" /\ r.code \in 200..299
    /\ Get(r.body, "status", "") = "accepted" /\ Get(r.body, "is_active", FALSE)
\* the batch answered in this step held the oldest unsent records, at most
\* SEND_BATCH_SIZE of them, and they are the records marked
OldestMarked ==
    LET u == SelectSeq(cache, IsUnsent)
        n == IF Len(u) > SEND_BATCH_SIZE THEN SEND_BATCH_SIZE ELSE Len(u)
    IN /\ req.ids = [i \in 1..n |-> u[i].id]
       /\ Len(cache') = Len(cache)
       /\ \A i \in 1..Len(cache) :
             /\ cache'[i].id = cache[i].id
             /\ cache'[i].sent <=> (cache[i].sent \/ \E j \in 1..n : u[j].id = cache[i].id)
\* with the record the tick saved the backlog was b + 1; after the answer it
\* is smaller than b, or empty
Shrinks ==
    /\ Backlog(cache') = (IF Backlog(cache) > SEND_BATCH_SIZE
                          THEN Backlog(cache) - SEND_BATCH_SIZE ELSE 0)
    /\ Backlog(cache') = 0 \/ Backlog(cache') < Backlog(cache) - 1
AllQueuedSent == \A i \in 1..Len(cache) : cache[i].sent

Entered == state = REGISTERED /\ pc \in {"first_wait", "tick"}

\* C40: the agent never wedges: whatever lifecycle state it is in, when time
\* advances and the server answers its registration requests with accepted,
\* its own credential, every required field and is_active true, it
\* eventually is REGISTERED and in the collection loop.
C40_NeverWedges == \A s \in ClientState : (state = s) ~> Entered

\* the collection loop is entered only after the 300 seconds of an ERROR state
\* have been waited out
C40_Witness ==
    /\ Entered
    /\ now >= StartTime + MAX_ERROR_DURATION
    /\ now < StartTime + REGISTER_REJECTED_RETRY_INTERVAL
====
